---- MODULE Spec2Model ----
(***************************************************************************)
(* Frame-resource ring and fence synchronisation of ShapesApp              *)
(* (Week4-6-ShapeComplete.cpp).  The render thread runs Update then Draw   *)
(* for every frame; the GPU consumes the command queue concurrently.       *)
(* Each step of Update and Draw that touches state shared with the GPU is  *)
(* one action, so that GPU progress can interleave between any two steps.  *)
(***************************************************************************)
EXTENDS Integers, Sequences, FiniteSets, TLC

\* ---------------------------------------------------------------- constants

\* const int gNumFrameResources = 3;
gNumFrameResources == 3

\* FrameResource* mCurrFrameResource = nullptr;  (slots are 0..2, nullptr is -1)
NullFrameResource == -1

\* Number of render items of the scene that are modelled (the first NumItems
\* items pushed by BuildRenderItems).
NumItems == 2

\* Number of frames (Update/Draw pairs) the render loop is followed for.
MaxFrames == 5

\* Largest value mCurrentFence may have when D3DApp::Initialize returns; the
\* flush that ends ShapesApp::Initialize adds 1 to it.
MaxInitFence == 1

\* Number of times the scene is mutated in SpecMutate.
MaxMutations == 1

Slots == 0 .. (gNumFrameResources - 1)
Items == 0 .. (NumItems - 1)

\* ------------------------------------------------------------ pure helpers

Min(a, b) == IF a < b THEN a ELSE b

\* XMMatrixTranslation(x, y, z): row-vector convention, translation in row 4.
XMMatrixTranslation(x, y, z) ==
    << <<1, 0, 0, 0>>, <<0, 1, 0, 0>>, <<0, 0, 1, 0>>, <<x, y, z, 1>> >>

\* XMMatrixTranspose
XMMatrixTranspose(M) == [i \in 1 .. 4 |-> [j \in 1 .. 4 |-> M[j][i]]]

\* World matrices stored by BuildRenderItems for the first items, with
\* coordinates in half units (ground is at y = -0.5).
BuildWorld(i) ==
    CASE i = 0 -> XMMatrixTranslation(0, -1, 0)
      [] i = 1 -> XMMatrixTranslation(0, 2, 0)
      [] i = 2 -> XMMatrixTranslation(0, 12, 0)
      [] i = 3 -> XMMatrixTranslation(0, 6, 60)
      [] i = 4 -> XMMatrixTranslation(0, 6, -60)
      [] i = 5 -> XMMatrixTranslation(60, 6, 0)
      [] OTHER -> XMMatrixTranslation(-60, 6, 0)

\* World matrix given to an item by its n-th modification after the build.
MutatedWorld(i, n) == XMMatrixTranslation(100 + n, i, 0)

\* ObjCBIndex assigned by BuildRenderItems: 0, 1, 2, then objCBIndex++ from 3.
ObjCBIndex_OneBased(i) == i + 1
ObjCBIndex(i) == i

\* FrameResource(device, 1, (UINT)mAllRitems.size()): the records of a slot's
\* object buffer.
ObjectCBRecords(allRitems) == 0 .. (Cardinality(allRitems) - 1)

\* Content of an upload-buffer record that has never been written.
Unwritten == << >>

\* mCurrFrameResourceIndex = (mCurrFrameResourceIndex + 1) % gNumFrameResources
NextIndex_Mod2(i) == (i + 1) % (gNumFrameResources - 1)
NextIndex(i) == (i + 1) % gNumFrameResources

\* Fence != 0 && GetCompletedValue() < Fence
NeedWait_OffByOne(fence, completedValue) == fence # 0 /\ completedValue + 1 < fence
NeedWait_Always(fence, completedValue) == fence # 0 /\ completedValue <= fence
NeedWait_Never(fence, completedValue) == FALSE
NeedWait(fence, completedValue) == fence # 0 /\ completedValue < fence

\* mFence->SetEventOnCompletion(value, eventHandle): state of the event after
\* the call; it is set at once when the fence has already reached the value.
SetEventOnCompletion_ArmOnly(completedValue, value) == "armed"
SetEventOnCompletion(completedValue, value) ==
    IF completedValue >= value THEN "signaled" ELSE "armed"

\* fence value handed to mFence->SetEventOnCompletion
WaitTarget_Next(fence, currentFence) == currentFence + 1
WaitTarget(fence, currentFence) == fence

\* if (e->NumFramesDirty > 0)
IsDirty_NonNegative(n) == n >= 0
IsDirty(n) == n > 0

\* Number of pass records each FrameResource is created with
\* (second argument of the FrameResource constructor).
PassCount == 1

\* currPassCB->CopyData(0, mMainPassCB): record index of the pass constants
PassCBIndex_Frame(frameResourceIndex) == frameResourceIndex
PassCBIndex(frameResourceIndex) == 0

\* mCurrFrameResource->Fence = value
StampFence_All(fences, slot, value) == [s \in DOMAIN fences |-> value]
StampFence(fences, slot, value) == [fences EXCEPT ![slot] = value]

\* ThrowIfFailed(hr): position of the render thread after the call
ThrowIfFailed_Ignore(failed, nextPc) == nextPc
ThrowIfFailed(failed, nextPc) == IF failed THEN "Thrown" ELSE nextPc

\* WaitForSingleObject(eventHandle, INFINITE); its result is not inspected:
\* position of the render thread after the call
AfterWait(waitFailed) == "CloseHandle"

\* ++mCurrentFence
NextFence_Same(f) == f
NextFence(f) == f + 1

\* value passed to mCommandQueue->Signal
SignalValue_Ahead(currentFence) == currentFence + 1
SignalValue_Stale(currentFence) == currentFence - 1
SignalValue(currentFence) == currentFence

\* objConstants.World = XMMatrixTranspose(world)
ObjectConstants_NoTranspose(world) == world
ObjectConstants(world) == XMMatrixTranspose(world)

\* e->NumFramesDirty--
DirtyAfterWrite_Clear(n) == 0
DirtyAfterWrite(n) == n - 1

\* NumFramesDirty = gNumFrameResources on modification of the object data
DirtyOnMutate_Additive(n) == n + gNumFrameResources
DirtyOnMutate(n) == gNumFrameResources

\* OnKeyboardInput: if (GetAsyncKeyState('1') & 0x8000) mIsWireframe = true;
\* else mIsWireframe = false;
OnKeyboardInput_Sticky(wireframe, key1) == wireframe \/ key1
OnKeyboardInput(wireframe, key1) == IF key1 THEN TRUE ELSE FALSE

\* Draw: pipeline state the command list is reset with
DrawPSO_Inverted(wireframe) == IF wireframe THEN "opaque" ELSE "opaque_wireframe"
DrawPSO(wireframe) == IF wireframe THEN "opaque_wireframe" ELSE "opaque"

\* ----------------------------------------------------------- scene geometry

\* The meshes created by BuildShapeGeometry, in the order of their creation.
MeshOrder == <<"ground", "keepFoundation", "keepBody", "outerWallLong", "outerWallShort",
               "hexTower", "torusRoof", "keepPyramidRoof", "keepConeRoof", "diamondSpire",
               "arrowSlit", "gableWedge", "gateColumn", "gatehouse">>
MeshNames == {MeshOrder[k] : k \in 1 .. Len(MeshOrder)}

\* Largest number of meshes given more than the smallest number of vertices
\* or of indices.
MaxLargeMeshes == 2

\* UINT xOffset = previousOffset + (UINT)previous.size();
ChainOffset_SizeOnly(previousOffset, previousSize) == previousSize
ChainOffset(previousOffset, previousSize) == previousOffset + previousSize

\* "Cache the vertex offsets to each object in the concatenated vertex
\* buffer": size is Vertices.size() of every mesh.
VertexOffsets(size) ==
    LET
        groundOffset == 0
        keepFoundationOffset == size.ground
        keepBodyOffset == ChainOffset(keepFoundationOffset, size.keepFoundation)
        outerWallLongOffset == ChainOffset(keepBodyOffset, size.keepBody)
        outerWallShortOffset == ChainOffset(outerWallLongOffset, size.outerWallLong)
        hexTowerOffset == ChainOffset(outerWallShortOffset, size.outerWallShort)
        torusRoofOffset == ChainOffset(hexTowerOffset, size.hexTower)
        keepPyramidRoofOffset == ChainOffset(torusRoofOffset, size.torusRoof)
        keepConeRoofOffset == ChainOffset(keepPyramidRoofOffset, size.keepPyramidRoof)
        diamondSpireOffset == ChainOffset(keepConeRoofOffset, size.keepConeRoof)
        arrowSlitOffset == ChainOffset(diamondSpireOffset, size.diamondSpire)
        gableWedgeOffset == ChainOffset(arrowSlitOffset, size.arrowSlit)
        gateColumnOffset == ChainOffset(gableWedgeOffset, size.gableWedge)
        gatehouseOffset == ChainOffset(gateColumnOffset, size.gateColumn)
    IN  [ground |-> groundOffset,
         keepFoundation |-> keepFoundationOffset,
         keepBody |-> keepBodyOffset,
         outerWallLong |-> outerWallLongOffset,
         outerWallShort |-> outerWallShortOffset,
         hexTower |-> hexTowerOffset,
         torusRoof |-> torusRoofOffset,
         keepPyramidRoof |-> keepPyramidRoofOffset,
         keepConeRoof |-> keepConeRoofOffset,
         diamondSpire |-> diamondSpireOffset,
         arrowSlit |-> arrowSlitOffset,
         gableWedge |-> gableWedgeOffset,
         gateColumn |-> gateColumnOffset,
         gatehouse |-> gatehouseOffset]

\* "Cache the starting index for each object in the concatenated index
\* buffer": size is Indices32.size() of every mesh.
IndexOffsets(size) ==
    LET
        groundOffset == 0
        keepFoundationOffset == size.ground
        keepBodyOffset == ChainOffset(keepFoundationOffset, size.keepFoundation)
        outerWallLongOffset == ChainOffset(keepBodyOffset, size.keepBody)
        outerWallShortOffset == ChainOffset(outerWallLongOffset, size.outerWallLong)
        hexTowerOffset == ChainOffset(outerWallShortOffset, size.outerWallShort)
        torusRoofOffset == ChainOffset(hexTowerOffset, size.hexTower)
        keepPyramidRoofOffset == ChainOffset(torusRoofOffset, size.torusRoof)
        keepConeRoofOffset == ChainOffset(keepPyramidRoofOffset, size.keepPyramidRoof)
        diamondSpireOffset == ChainOffset(keepConeRoofOffset, size.keepConeRoof)
        arrowSlitOffset == ChainOffset(diamondSpireOffset, size.diamondSpire)
        gableWedgeOffset == ChainOffset(arrowSlitOffset, size.arrowSlit)
        gateColumnOffset == ChainOffset(gableWedgeOffset, size.gableWedge)
        gatehouseOffset == ChainOffset(gateColumnOffset, size.gateColumn)
    IN  [ground |-> groundOffset,
         keepFoundation |-> keepFoundationOffset,
         keepBody |-> keepBodyOffset,
         outerWallLong |-> outerWallLongOffset,
         outerWallShort |-> outerWallShortOffset,
         hexTower |-> hexTowerOffset,
         torusRoof |-> torusRoofOffset,
         keepPyramidRoof |-> keepPyramidRoofOffset,
         keepConeRoof |-> keepConeRoofOffset,
         diamondSpire |-> diamondSpireOffset,
         arrowSlit |-> arrowSlitOffset,
         gableWedge |-> gableWedgeOffset,
         gateColumn |-> gateColumnOffset,
         gatehouse |-> gatehouseOffset]

SubmeshGeometry(indexCount, startIndexLocation, baseVertexLocation) ==
    [IndexCount |-> indexCount, StartIndexLocation |-> startIndexLocation,
     BaseVertexLocation |-> baseVertexLocation]

\* SubmeshGeometry xSubmesh; IndexCount, StartIndexLocation, BaseVertexLocation
Submeshes(size, indexOffset, vertexOffset) ==
    [ground |-> SubmeshGeometry(size.ground, indexOffset.ground, vertexOffset.ground),
     keepFoundation |-> SubmeshGeometry(size.keepFoundation, indexOffset.keepFoundation, vertexOffset.keepFoundation),
     keepBody |-> SubmeshGeometry(size.keepBody, indexOffset.keepBody, vertexOffset.keepBody),
     outerWallLong |-> SubmeshGeometry(size.outerWallLong, indexOffset.outerWallLong, vertexOffset.outerWallLong),
     outerWallShort |-> SubmeshGeometry(size.outerWallShort, indexOffset.outerWallShort, vertexOffset.outerWallShort),
     hexTower |-> SubmeshGeometry(size.hexTower, indexOffset.hexTower, vertexOffset.hexTower),
     torusRoof |-> SubmeshGeometry(size.torusRoof, indexOffset.torusRoof, vertexOffset.torusRoof),
     keepPyramidRoof |-> SubmeshGeometry(size.keepPyramidRoof, indexOffset.keepPyramidRoof, vertexOffset.keepPyramidRoof),
     keepConeRoof |-> SubmeshGeometry(size.keepConeRoof, indexOffset.keepConeRoof, vertexOffset.keepConeRoof),
     diamondSpire |-> SubmeshGeometry(size.diamondSpire, indexOffset.diamondSpire, vertexOffset.diamondSpire),
     arrowSlit |-> SubmeshGeometry(size.arrowSlit, indexOffset.arrowSlit, vertexOffset.arrowSlit),
     gableWedge |-> SubmeshGeometry(size.gableWedge, indexOffset.gableWedge, vertexOffset.gableWedge),
     gateColumn |-> SubmeshGeometry(size.gateColumn, indexOffset.gateColumn, vertexOffset.gateColumn),
     gatehouse |-> SubmeshGeometry(size.gatehouse, indexOffset.gatehouse, vertexOffset.gatehouse)]

\* The elements 1 .. n of a mesh's vertex or index list.
MeshElements(mesh, n) == [i \in 1 .. n |-> [mesh |-> mesh, element |-> i]]

\* The loops that copy the meshes' vertices into vertices[k++], and the
\* indices.insert calls: the same order of meshes in both.
PackMeshes(size) ==
    MeshElements("ground", size.ground) \o
    MeshElements("keepFoundation", size.keepFoundation) \o
    MeshElements("keepBody", size.keepBody) \o
    MeshElements("outerWallLong", size.outerWallLong) \o
    MeshElements("outerWallShort", size.outerWallShort) \o
    MeshElements("hexTower", size.hexTower) \o
    MeshElements("torusRoof", size.torusRoof) \o
    MeshElements("keepPyramidRoof", size.keepPyramidRoof) \o
    MeshElements("keepConeRoof", size.keepConeRoof) \o
    MeshElements("diamondSpire", size.diamondSpire) \o
    MeshElements("arrowSlit", size.arrowSlit) \o
    MeshElements("gableWedge", size.gableWedge) \o
    MeshElements("gateColumn", size.gateColumn) \o
    MeshElements("gatehouse", size.gatehouse)

\* geo->DrawArgs["x"] = xSubmesh;
StoreDrawArgs(submesh) ==
    [ground |-> submesh.ground,
     keepFoundation |-> submesh.keepFoundation,
     keepBody |-> submesh.keepBody,
     outerWallLong |-> submesh.outerWallLong,
     outerWallShort |-> submesh.outerWallShort,
     hexTower |-> submesh.hexTower,
     torusRoof |-> submesh.torusRoof,
     keepPyramidRoof |-> submesh.keepPyramidRoof,
     keepConeRoof |-> submesh.keepConeRoof,
     diamondSpire |-> submesh.diamondSpire,
     arrowSlit |-> submesh.arrowSlit,
     gableWedge |-> submesh.gableWedge,
     gateColumn |-> submesh.gateColumn,
     gatehouse |-> submesh.gatehouse]

\* ------------------------------------------------------- descriptor heap

\* UINT numDescriptors = (objCount + 1) * gNumFrameResources;
NumDescriptors(objCount) == (objCount + 1) * gNumFrameResources

\* mPassCbvOffset = objCount * gNumFrameResources;
PassCbvOffset(objCount) == objCount * gNumFrameResources

\* BuildConstantBufferViews: int heapIndex = frameIndex * objCount + i;
ObjHeapIndex(frameIndex, objCount, i) == frameIndex * objCount + i

\* BuildConstantBufferViews: int heapIndex = mPassCbvOffset + frameIndex;
PassHeapIndex(passCbvOffset, frameIndex) == passCbvOffset + frameIndex

\* Draw: int passCbvIndex = mPassCbvOffset + mCurrFrameResourceIndex;
DrawPassCbvIndex_Object(passCbvOffset, frameResourceIndex) == frameResourceIndex
DrawPassCbvIndex(passCbvOffset, frameResourceIndex) == passCbvOffset + frameResourceIndex

\* DrawRenderItems:
\* UINT cbvIndex = mCurrFrameResourceIndex * (UINT)mOpaqueRitems.size() + ri->ObjCBIndex;
DrawObjCbvIndex_ItemMajor(frameResourceIndex, objCount, objCBIndex) ==
    objCBIndex * gNumFrameResources + frameResourceIndex
DrawObjCbvIndex(frameResourceIndex, objCount, objCBIndex) ==
    frameResourceIndex * objCount + objCBIndex

\* A constant buffer view: the buffer of a frame resource and the record in it
\* that cbvDesc.BufferLocation addresses.
ObjectView(frameIndex, i) == [buffer |-> "ObjectCB", slot |-> frameIndex, record |-> i]
PassView(frameIndex) == [buffer |-> "PassCB", slot |-> frameIndex, record |-> 0]

\* The CreateConstantBufferView calls of BuildConstantBufferViews in the order
\* of the loops: for every frame resource the objects, then the passes.
RECURSIVE ObjectViewWrites(_, _, _)
ObjectViewWrites(frameIndex, i, objCount) ==
    IF frameIndex >= gNumFrameResources THEN << >>
    ELSE IF i >= objCount THEN ObjectViewWrites(frameIndex + 1, 0, objCount)
    ELSE <<[index |-> ObjHeapIndex(frameIndex, objCount, i),
            view |-> ObjectView(frameIndex, i)]>>
         \o ObjectViewWrites(frameIndex, i + 1, objCount)

RECURSIVE PassViewWrites(_, _)
PassViewWrites(frameIndex, passCbvOffset) ==
    IF frameIndex >= gNumFrameResources THEN << >>
    ELSE <<[index |-> PassHeapIndex(passCbvOffset, frameIndex),
            view |-> PassView(frameIndex)]>>
         \o PassViewWrites(frameIndex + 1, passCbvOffset)

\* The heap after the writes: a descriptor holds the view written to it last.
RECURSIVE ApplyViewWrites(_, _)
ApplyViewWrites(heap, writes) ==
    IF writes = << >> THEN heap
    ELSE ApplyViewWrites(
            [h \in DOMAIN heap |-> IF h = Head(writes).index THEN Head(writes).view
                                   ELSE heap[h]],
            Tail(writes))

\* mCbvHeap as BuildDescriptorHeaps creates it: numDescriptors descriptors,
\* none of them written.
NoView == [buffer |-> "none", slot |-> 0, record |-> 0]
CreateDescriptorHeap(numDescriptors) == [h \in 0 .. (numDescriptors - 1) |-> NoView]

\* mCbvHeap as BuildConstantBufferViews leaves it.
BuildConstantBufferViews(heap, objCount, passCbvOffset) ==
    ApplyViewWrites(heap, ObjectViewWrites(0, 0, objCount)
                          \o PassViewWrites(0, passCbvOffset))

\* ------------------------------------------------------------------ camera

\* MathHelper::Pi; angles are counted in ten-thousandths of a radian.
Pi == 31416

\* Scene units are counted in twentieths, the step of the zoom (0.05f).
RadiusScale == 20

\* POINT mLastMousePos; has no initialiser: its value is indeterminate until
\* a handler assigns it.
Indeterminate == << >>

\* Number of OnMouseMove calls followed.
MaxMouseMoves == 2

\* (x, y) of a mouse message: positions a short diagonal drag and two long
\* drags apart.
MousePositions == {<<0, 0>>, <<100, 100>>, <<3000, 0>>, <<0, 3000>>}

\* WPARAM btnState: the buttons held during a mouse message.
ButtonStates == SUBSET {"MK_LBUTTON", "MK_RBUTTON"}

\* AspectRatio() after a resize.
AspectRatios == {"4:3", "16:9"}

\* No OnMouseMove has been handled yet.
NoMessage == [btnState |-> {}, x |-> 0, y |-> 0]

\* XMConvertToRadians(0.25f * pixels): a quarter of a degree per pixel.
RotateDelta(pixels) == (pixels * Pi) \div 720

\* 0.05f * pixels, in twentieths of a scene unit.
ZoomDelta(pixels) == pixels

\* MathHelper::Clamp(x, low, high)
Clamp(x, low, high) == IF x < low THEN low ELSE IF x > high THEN high ELSE x

\* if ((btnState & MK_LBUTTON) != 0) ... else if ((btnState & MK_RBUTTON) != 0) ...
MouseBranch_RightFirst(btnState) ==
    IF "MK_RBUTTON" \in btnState THEN "zoom"
    ELSE IF "MK_LBUTTON" \in btnState THEN "orbit"
    ELSE "none"
MouseBranch(btnState) ==
    IF "MK_LBUTTON" \in btnState THEN "orbit"
    ELSE IF "MK_RBUTTON" \in btnState THEN "zoom"
    ELSE "none"

\* ------------------------------------------------------------- Initialize

\* The Build calls of Initialize in their order.
InitOrder_FramesFirst ==
    <<"BuildRootSignature", "BuildShadersAndInputLayout", "BuildShapeGeometry",
      "BuildFrameResources", "BuildRenderItems", "BuildDescriptorHeaps",
      "BuildConstantBufferViews", "BuildPSOs">>
InitOrder ==
    <<"BuildRootSignature", "BuildShadersAndInputLayout", "BuildShapeGeometry",
      "BuildRenderItems", "BuildFrameResources", "BuildDescriptorHeaps",
      "BuildConstantBufferViews", "BuildPSOs">>

\* Position of Initialize after mCommandQueue->ExecuteCommandLists:
\* "Wait until initialization is complete."
AfterInitExecute_NoFlush == "Init_Return"
AfterInitExecute == "Init_Flush"

\* The steps of an Initialize that returns true.
InitializeSteps ==
    <<"Reset">> \o InitOrder \o <<"Close", "ExecuteCommandLists", "FlushCommandQueue">>

\* ~ShapesApp: if (md3dDevice != nullptr) FlushCommandQueue();
DestructorFlushes_Never(device) == FALSE
DestructorFlushes(device) == device # "null"

\* -------------------------------------------------------------------- state

VARIABLES
    pc,                       \* position of the render thread
    mCurrFrameResourceIndex,  \* ring index
    mCurrFrameResource,       \* slot pointed to, or NullFrameResource
    mCurrentFence,            \* CPU fence counter
    Fence,                    \* FrameResource::Fence of every slot
    CmdListAlloc,             \* frame whose commands the slot's allocator holds
    ObjectCB,                 \* slot -> record index -> ObjectConstants.World
    PassCB,                   \* slot -> frame whose pass constants record 0 holds
    World,                    \* RenderItem::World
    NumFramesDirty,           \* RenderItem::NumFramesDirty
    mCommandList,             \* frame recorded in the command list
    queue,                    \* mCommandQueue: work not yet consumed by the GPU
    completed,                \* mFence->GetCompletedValue()
    eventHandle,              \* "none", "created", "armed", "signaled"
    eventTarget,              \* fence value the event is registered for
    \* history, read by the properties only
    updates,                  \* number of Update calls started
    observed,                 \* completed value read by the check of this Update
    waited,                   \* this Update entered the blocking wait
    stampLog,                 \* values stamped into slots, one per Draw
    submitted,                \* everything Draw has enqueued to the command queue
    framesSince,              \* UpdateObjectCBs passes since the item's mutation
    writeLog,                 \* slots written for the item since its mutation
    priorWrites,              \* writes the item had received when it was re-mutated
    nmut,                     \* mutations so far
    fence0,                   \* mCurrentFence when Initialize returned
    objPasses,                \* number of UpdateObjectCBs passes run
    passWrites,               \* every write into a pass buffer: slot and record index
    fault,                    \* the call that has failed in this run, or "none"
    mIsWireframe,             \* ShapesApp::mIsWireframe
    mPSO,                     \* pipeline state the command list was last reset with
    \* history of the input, read by the properties only
    keyDown,                  \* the '1' key was down at the latest Update
    prevPSO,                  \* pipeline state of the frame before the latest Draw
    \* descriptors
    mCbvHeap,                 \* descriptor index -> constant buffer view
    mPassCbvOffset,           \* ShapesApp::mPassCbvOffset
    passCbvIndex,             \* descriptor Draw bound to root parameter 1
    cbvIndex,                 \* item -> descriptor DrawRenderItems bound for it
    objCopies,                \* element indices UpdateObjectCBs has passed to CopyData
    \* lifetime of the application object
    md3dDevice,               \* "null" or "device"
    initLog,                  \* steps of Initialize carried out, in order
    flushReturn,              \* position FlushCommandQueue returns to
    flushes,                  \* number of FlushCommandQueue calls made by ShapesApp
    released,                 \* the frame resources have been destroyed
    \* camera
    mTheta,                   \* microradians
    mPhi,                     \* microradians
    mRadius,                  \* twentieths of a scene unit
    mLastMousePos,            \* <<x, y>>, or Indeterminate
    mProj,                    \* aspect ratio the projection was computed for
    nMoves,                   \* OnMouseMove calls so far
    mouseCapture,             \* the window has captured the mouse
    msg,                      \* arguments of the last OnMouseMove
    \* BuildShapeGeometry
    pcGeo,                    \* position inside BuildShapeGeometry, or "done"
    meshVertices,             \* Vertices.size() of every mesh
    meshIndices,              \* Indices32.size() of every mesh
    vertexOffset,             \* the cached xVertexOffset values
    indexOffset,              \* the cached xIndexOffset values
    submesh,                  \* the xSubmesh locals
    vertices,                 \* the concatenated vertex buffer
    indices,                  \* the concatenated index buffer
    DrawArgs                  \* geo->DrawArgs

cpuVars == <<pc, mCurrFrameResourceIndex, mCurrFrameResource, mCurrentFence, Fence,
             CmdListAlloc, ObjectCB, PassCB, World, NumFramesDirty, mCommandList>>
gpuVars == <<queue, completed, eventHandle, eventTarget>>
histVars == <<updates, observed, waited, stampLog, submitted, framesSince, writeLog,
              priorWrites, nmut, fence0>>
auxVars == <<objPasses, passWrites, fault>>
wireVars == <<mIsWireframe, mPSO, keyDown, prevPSO>>
geoVars == <<pcGeo, meshVertices, meshIndices, vertexOffset, indexOffset, submesh,
             vertices, indices, DrawArgs>>
cbvVars == <<mCbvHeap, mPassCbvOffset, passCbvIndex, cbvIndex>>
lifeVars == <<md3dDevice, initLog, flushReturn, flushes, released>>
camVars == <<mTheta, mPhi, mRadius, mLastMousePos, mProj, nMoves, mouseCapture, msg>>
restVars == <<geoVars, lifeVars, camVars>>
extVars == <<wireVars, cbvVars, restVars, objCopies>>
nonGeoVars == <<cpuVars, gpuVars, histVars, auxVars, wireVars, cbvVars, objCopies,
                lifeVars, camVars>>
vars == <<cpuVars, gpuVars, histVars, auxVars, extVars>>

\* The render items built so far; all of them are pushed to mOpaqueRitems.
mAllRitems == DOMAIN World
mOpaqueRitems == mAllRitems

\* UINT objCount = (UINT)mOpaqueRitems.size();
ObjCount == Cardinality(mOpaqueRitems)

\* float mTheta = 1.5f * XM_PI; float mPhi = 0.2f * XM_PI; float mRadius = 15.0f;
CameraConstructed ==
    /\ mTheta = (3 * Pi) \div 2
    /\ mPhi = Pi \div 5
    /\ mRadius = 15 * RadiusScale
    /\ mLastMousePos = Indeterminate
    /\ mProj = "Identity"
    /\ nMoves = 0
    /\ mouseCapture = FALSE
    /\ msg = NoMessage

\* Sizes of the meshes when every mesh has one vertex and one triangle.
UnitVertices == [m \in MeshNames |-> 1]
UnitIndices == [m \in MeshNames |-> 3]

\* The geometry as BuildShapeGeometry leaves it for meshes of the given sizes.
GeometryBuilt(vertexSize, indexSize) ==
    /\ pcGeo = "done"
    /\ meshVertices = vertexSize
    /\ meshIndices = indexSize
    /\ vertexOffset = VertexOffsets(vertexSize)
    /\ indexOffset = IndexOffsets(indexSize)
    /\ submesh = Submeshes(indexSize, indexOffset, vertexOffset)
    /\ vertices = PackMeshes(vertexSize)
    /\ indices = PackMeshes(indexSize)
    /\ DrawArgs = StoreDrawArgs(submesh)

\* State when Initialize has returned true: render items built with their
\* World and NumFramesDirty = gNumFrameResources, three frame resources with
\* Fence 0 and unwritten buffers, the command queue flushed.
Init ==
    /\ pc = "Update"
    /\ mCurrFrameResourceIndex = 0
    /\ mCurrFrameResource = NullFrameResource
    /\ mCurrentFence \in 1 .. (MaxInitFence + 1)
    /\ completed = mCurrentFence
    /\ fence0 = mCurrentFence
    /\ Fence = [s \in Slots |-> 0]
    /\ CmdListAlloc = [s \in Slots |-> 0]
    /\ ObjectCB = [s \in Slots |-> [k \in ObjectCBRecords(Items) |-> Unwritten]]
    /\ PassCB = [s \in Slots |-> 0]
    /\ World = [i \in Items |-> BuildWorld(i)]
    /\ NumFramesDirty = [i \in Items |-> gNumFrameResources]
    /\ mCommandList = 0
    /\ queue = << >>
    /\ eventHandle = "none"
    /\ eventTarget = 0
    /\ updates = 0
    /\ observed = 0
    /\ waited = FALSE
    /\ stampLog = << >>
    /\ submitted = << >>
    /\ framesSince = [i \in Items |-> 0]
    /\ writeLog = [i \in Items |-> << >>]
    /\ priorWrites = [i \in Items |-> -1]
    /\ nmut = 0
    /\ objPasses = 0
    /\ passWrites = << >>
    /\ fault = "none"
    /\ mIsWireframe = FALSE
    /\ mPSO = "none"
    /\ keyDown = FALSE
    /\ prevPSO = "none"
    /\ GeometryBuilt(UnitVertices, UnitIndices)
    /\ mPassCbvOffset = PassCbvOffset(ObjCount)
    /\ mCbvHeap = BuildConstantBufferViews(CreateDescriptorHeap(NumDescriptors(ObjCount)),
                                           ObjCount, mPassCbvOffset)
    /\ passCbvIndex = << >>
    /\ cbvIndex = << >>
    /\ objCopies = {}
    /\ md3dDevice = "device"
    /\ initLog = InitializeSteps
    /\ flushReturn = "none"
    /\ flushes = 1
    /\ released = FALSE
    /\ CameraConstructed

\* ----------------------------------------------------------- render thread

\* Update: OnKeyboardInput, UpdateCamera, then cycle the ring.  key1 is the
\* state of the '1' key read by GetAsyncKeyState.
Update_Begin(key1) ==
    /\ pc = "Update"
    /\ updates < MaxFrames
    /\ mIsWireframe' = OnKeyboardInput(mIsWireframe, key1)
    /\ keyDown' = key1
    /\ mCurrFrameResourceIndex' = NextIndex(mCurrFrameResourceIndex)
    /\ mCurrFrameResource' = mCurrFrameResourceIndex'
    /\ updates' = updates + 1
    /\ waited' = FALSE
    /\ pc' = "CheckFence"
    /\ UNCHANGED <<mCurrentFence, Fence, CmdListAlloc, ObjectCB, PassCB, World,
                   NumFramesDirty, mCommandList, gpuVars, observed, stampLog,
                   submitted, framesSince, writeLog, priorWrites, nmut, fence0>>
    /\ UNCHANGED auxVars
    /\ UNCHANGED <<mPSO, prevPSO>>
    /\ UNCHANGED <<cbvVars, restVars, objCopies>>

\* Update while the '1' key is not held.
Update_Advance == Update_Begin(FALSE)

\* Update while the '1' key is held.
Update_AdvanceKeyHeld == Update_Begin(TRUE)

\* if (Fence != 0 && mFence->GetCompletedValue() < Fence)
Update_CheckFence ==
    /\ pc = "CheckFence"
    /\ observed' = completed
    /\ IF NeedWait(Fence[mCurrFrameResource], completed)
       THEN pc' = "CreateEvent"
       ELSE pc' = "UpdateObjectCBs"
    /\ UNCHANGED <<mCurrFrameResourceIndex, mCurrFrameResource, mCurrentFence, Fence,
                   CmdListAlloc, ObjectCB, PassCB, World, NumFramesDirty, mCommandList,
                   gpuVars, updates, waited, stampLog, submitted, framesSince, writeLog,
                   priorWrites, nmut, fence0>>
    /\ UNCHANGED auxVars
    /\ UNCHANGED extVars

\* HANDLE eventHandle = CreateEventEx(nullptr, nullptr, false, EVENT_ALL_ACCESS);
Update_CreateEvent ==
    /\ pc = "CreateEvent"
    /\ eventHandle' = "created"
    /\ waited' = TRUE
    /\ pc' = "SetEventOnCompletion"
    /\ UNCHANGED <<mCurrFrameResourceIndex, mCurrFrameResource, mCurrentFence, Fence,
                   CmdListAlloc, ObjectCB, PassCB, World, NumFramesDirty, mCommandList,
                   queue, completed, eventTarget, updates, observed, stampLog, submitted,
                   framesSince, writeLog, priorWrites, nmut, fence0>>
    /\ UNCHANGED auxVars
    /\ UNCHANGED extVars

\* mFence->SetEventOnCompletion(Fence, eventHandle): the event is set at once
\* when the fence has already reached the value.
Update_SetEventOnCompletion ==
    /\ pc = "SetEventOnCompletion"
    /\ eventTarget' = WaitTarget(Fence[mCurrFrameResource], mCurrentFence)
    /\ eventHandle' = SetEventOnCompletion(completed, eventTarget')
    /\ pc' = ThrowIfFailed(FALSE, "WaitForSingleObject")
    /\ UNCHANGED <<mCurrFrameResourceIndex, mCurrFrameResource, mCurrentFence, Fence,
                   CmdListAlloc, ObjectCB, PassCB, World, NumFramesDirty, mCommandList,
                   queue, completed, histVars>>
    /\ UNCHANGED auxVars
    /\ UNCHANGED extVars

\* WaitForSingleObject(eventHandle, INFINITE): returns once the event is set;
\* the auto-reset event goes back to non-signaled.
Update_WaitForSingleObject ==
    /\ pc = "WaitForSingleObject"
    /\ eventHandle = "signaled"
    /\ eventHandle' = "created"
    /\ pc' = AfterWait(FALSE)
    /\ UNCHANGED <<mCurrFrameResourceIndex, mCurrFrameResource, mCurrentFence, Fence,
                   CmdListAlloc, ObjectCB, PassCB, World, NumFramesDirty, mCommandList,
                   queue, completed, eventTarget, histVars>>
    /\ UNCHANGED auxVars
    /\ UNCHANGED extVars

\* CloseHandle(eventHandle);
Update_CloseHandle ==
    /\ pc = "CloseHandle"
    /\ eventHandle' = "none"
    /\ pc' = "UpdateObjectCBs"
    /\ UNCHANGED <<mCurrFrameResourceIndex, mCurrFrameResource, mCurrentFence, Fence,
                   CmdListAlloc, ObjectCB, PassCB, World, NumFramesDirty, mCommandList,
                   queue, completed, eventTarget, histVars>>
    /\ UNCHANGED auxVars
    /\ UNCHANGED extVars

\* UpdateObjectCBs: the whole loop over mAllRitems.
UpdateObjectCBs ==
    /\ pc = "UpdateObjectCBs"
    /\ ObjectCB' = [ObjectCB EXCEPT ![mCurrFrameResource] =
                      [k \in Items |->
                         IF \E i \in Items : ObjCBIndex(i) = k /\ IsDirty(NumFramesDirty[i])
                         THEN ObjectConstants(
                                World[CHOOSE i \in Items :
                                        ObjCBIndex(i) = k /\ IsDirty(NumFramesDirty[i])])
                         ELSE ObjectCB[mCurrFrameResource][k]]]
    /\ NumFramesDirty' = [i \in Items |->
                            IF IsDirty(NumFramesDirty[i])
                            THEN DirtyAfterWrite(NumFramesDirty[i])
                            ELSE NumFramesDirty[i]]
    /\ writeLog' = [i \in Items |->
                      IF IsDirty(NumFramesDirty[i])
                      THEN Append(writeLog[i], mCurrFrameResource)
                      ELSE writeLog[i]]
    /\ framesSince' = [i \in Items |-> Min(framesSince[i] + 1, gNumFrameResources)]
    /\ pc' = "UpdateMainPassCB"
    /\ UNCHANGED <<mCurrFrameResourceIndex, mCurrFrameResource, mCurrentFence, Fence,
                   CmdListAlloc, PassCB, World, mCommandList, gpuVars, updates,
                   observed, waited, stampLog, submitted, priorWrites, nmut, fence0>>
    /\ objPasses' = objPasses + 1
    /\ UNCHANGED <<passWrites, fault>>
    /\ objCopies' = objCopies \cup {ObjCBIndex(i) : i \in {j \in Items : IsDirty(NumFramesDirty[j])}}
    /\ UNCHANGED <<wireVars, cbvVars, restVars>>

\* UpdateMainPassCB: currPassCB->CopyData(0, mMainPassCB); the record is
\* identified by the frame it was computed for.
UpdateMainPassCB ==
    /\ pc = "UpdateMainPassCB"
    /\ PassCB' = [PassCB EXCEPT ![mCurrFrameResource] = updates]
    /\ pc' = "Draw"
    /\ UNCHANGED <<mCurrFrameResourceIndex, mCurrFrameResource, mCurrentFence, Fence,
                   CmdListAlloc, ObjectCB, World, NumFramesDirty, mCommandList,
                   gpuVars, histVars>>
    /\ passWrites' = Append(passWrites, [slot |-> mCurrFrameResource,
                                          index |-> PassCBIndex(mCurrFrameResourceIndex)])
    /\ UNCHANGED <<objPasses, fault>>
    /\ UNCHANGED extVars

\* Draw, up to mCommandList->Close(): reset the slot's allocator and record
\* the frame's commands into it.
Draw_Record ==
    /\ pc = "Draw"
    /\ CmdListAlloc' = [CmdListAlloc EXCEPT ![mCurrFrameResource] = updates]
    /\ mCommandList' = updates
    /\ mPSO' = DrawPSO(mIsWireframe)
    /\ prevPSO' = mPSO
    /\ passCbvIndex' = DrawPassCbvIndex(mPassCbvOffset, mCurrFrameResourceIndex)
    /\ cbvIndex' = [i \in Items |->
                      DrawObjCbvIndex(mCurrFrameResourceIndex, ObjCount, ObjCBIndex(i))]
    /\ pc' = "ExecuteCommandLists"
    /\ UNCHANGED <<mCurrFrameResourceIndex, mCurrFrameResource, mCurrentFence, Fence,
                   ObjectCB, PassCB, World, NumFramesDirty, gpuVars, histVars>>
    /\ UNCHANGED auxVars
    /\ UNCHANGED <<mIsWireframe, keyDown, mCbvHeap, mPassCbvOffset, objCopies>>
    /\ UNCHANGED restVars

\* mCommandQueue->ExecuteCommandLists(...); Present.
Draw_ExecuteCommandLists ==
    /\ pc = "ExecuteCommandLists"
    /\ LET cmd == [op |-> "exec", slot |-> mCurrFrameResource, value |-> mCommandList]
       IN  /\ queue' = Append(queue, cmd)
           /\ submitted' = Append(submitted, cmd)
    /\ pc' = "StampFence"
    /\ UNCHANGED <<mCurrFrameResourceIndex, mCurrFrameResource, mCurrentFence, Fence,
                   CmdListAlloc, ObjectCB, PassCB, World, NumFramesDirty, mCommandList,
                   completed, eventHandle, eventTarget, updates, observed, waited,
                   stampLog, framesSince, writeLog, priorWrites, nmut, fence0>>
    /\ UNCHANGED auxVars
    /\ UNCHANGED extVars

\* mCurrFrameResource->Fence = ++mCurrentFence;
Draw_StampFence ==
    /\ pc = "StampFence"
    /\ mCurrentFence' = NextFence(mCurrentFence)
    /\ Fence' = StampFence(Fence, mCurrFrameResource, mCurrentFence')
    /\ stampLog' = Append(stampLog, mCurrentFence')
    /\ pc' = "Signal"
    /\ UNCHANGED <<mCurrFrameResourceIndex, mCurrFrameResource, CmdListAlloc, ObjectCB,
                   PassCB, World, NumFramesDirty, mCommandList, gpuVars, updates,
                   observed, waited, submitted, framesSince, writeLog, priorWrites,
                   nmut, fence0>>
    /\ UNCHANGED auxVars
    /\ UNCHANGED extVars

\* mCommandQueue->Signal(mFence.Get(), mCurrentFence);
Draw_Signal ==
    /\ pc = "Signal"
    /\ LET cmd == [op |-> "signal", slot |-> mCurrFrameResource,
                   value |-> SignalValue(mCurrentFence)]
       IN  /\ queue' = Append(queue, cmd)
           /\ submitted' = Append(submitted, cmd)
    /\ pc' = "Update"
    /\ UNCHANGED <<mCurrFrameResourceIndex, mCurrFrameResource, mCurrentFence, Fence,
                   CmdListAlloc, ObjectCB, PassCB, World, NumFramesDirty, mCommandList,
                   completed, eventHandle, eventTarget, updates, observed, waited,
                   stampLog, framesSince, writeLog, priorWrites, nmut, fence0>>
    /\ UNCHANGED auxVars
    /\ UNCHANGED extVars

\* ---------------------------------------------------------------------- GPU

\* The GPU retires the command list at the head of the queue.
GpuExecute ==
    /\ queue # << >>
    /\ Head(queue).op = "exec"
    /\ queue' = Tail(queue)
    /\ UNCHANGED <<cpuVars, completed, eventHandle, eventTarget, histVars>>
    /\ UNCHANGED auxVars
    /\ UNCHANGED extVars

\* The GPU reaches a Signal: the fence takes the value, and an event
\* registered for a value the fence has now reached is set.
GpuSignal ==
    /\ queue # << >>
    /\ Head(queue).op = "signal"
    /\ completed' = Head(queue).value
    /\ eventHandle' = IF eventHandle = "armed" /\ eventTarget <= Head(queue).value
                      THEN "signaled" ELSE eventHandle
    /\ queue' = Tail(queue)
    /\ UNCHANGED <<cpuVars, eventTarget, histVars>>
    /\ UNCHANGED auxVars
    /\ UNCHANGED extVars

\* ------------------------------------------------------------ specification

Next ==
    \/ Update_Advance
    \/ Update_CheckFence
    \/ Update_CreateEvent
    \/ Update_SetEventOnCompletion
    \/ Update_WaitForSingleObject
    \/ Update_CloseHandle
    \/ UpdateObjectCBs
    \/ UpdateMainPassCB
    \/ Draw_Record
    \/ Draw_ExecuteCommandLists
    \/ Draw_StampFence
    \/ Draw_Signal
    \/ GpuExecute
    \/ GpuSignal

Spec == Init /\ [][Next]_vars

\* ------------------------------------------------------ scene modification

\* Modification of an item's object data between two frames, following the
\* rule stated with RenderItem::NumFramesDirty: when the object data is
\* modified, NumFramesDirty is set to gNumFrameResources.
Mutate(i) ==
    /\ pc = "Update"
    /\ nmut < MaxMutations
    /\ nmut' = nmut + 1
    /\ World' = [World EXCEPT ![i] = MutatedWorld(i, nmut')]
    /\ NumFramesDirty' = [NumFramesDirty EXCEPT ![i] = DirtyOnMutate(NumFramesDirty[i])]
    /\ framesSince' = [framesSince EXCEPT ![i] = 0]
    /\ priorWrites' = [priorWrites EXCEPT ![i] =
                         IF NumFramesDirty[i] > 0 /\ NumFramesDirty[i] < gNumFrameResources
                         THEN Len(writeLog[i]) ELSE -1]
    /\ writeLog' = [writeLog EXCEPT ![i] = << >>]
    /\ UNCHANGED <<pc, mCurrFrameResourceIndex, mCurrFrameResource, mCurrentFence, Fence,
                   CmdListAlloc, ObjectCB, PassCB, mCommandList, gpuVars, updates,
                   observed, waited, stampLog, submitted, fence0>>
    /\ UNCHANGED auxVars
    /\ UNCHANGED extVars

NextMutate ==
    \/ Next
    \/ \E i \in Items : Mutate(i)

SpecMutate == Init /\ [][NextMutate]_vars

\* ------------------------------------------------------------ failing calls

\* SetEventOnCompletion returns a failure HRESULT: ThrowIfFailed throws out
\* of Update; nothing is registered and CloseHandle is not reached.
Update_SetEventOnCompletionFails ==
    /\ pc = "SetEventOnCompletion"
    /\ fault = "none"
    /\ fault' = "SetEventOnCompletion"
    /\ pc' = ThrowIfFailed(TRUE, "WaitForSingleObject")
    /\ UNCHANGED <<mCurrFrameResourceIndex, mCurrFrameResource, mCurrentFence, Fence,
                   CmdListAlloc, ObjectCB, PassCB, World, NumFramesDirty, mCommandList,
                   gpuVars, histVars, objPasses, passWrites>>
    /\ UNCHANGED extVars

\* WaitForSingleObject returns WAIT_FAILED without the event having been set.
Update_WaitForSingleObjectFails ==
    /\ pc = "WaitForSingleObject"
    /\ fault = "none"
    /\ fault' = "WaitForSingleObject"
    /\ pc' = AfterWait(TRUE)
    /\ UNCHANGED <<mCurrFrameResourceIndex, mCurrFrameResource, mCurrentFence, Fence,
                   CmdListAlloc, ObjectCB, PassCB, World, NumFramesDirty, mCommandList,
                   gpuVars, histVars, objPasses, passWrites>>
    /\ UNCHANGED extVars

\* WinMain: catch (DxException&) { MessageBox(...); return 0; }
WinMain_Catch ==
    /\ pc = "Thrown"
    /\ pc' = "Exited"
    /\ UNCHANGED <<mCurrFrameResourceIndex, mCurrFrameResource, mCurrentFence, Fence,
                   CmdListAlloc, ObjectCB, PassCB, World, NumFramesDirty, mCommandList,
                   gpuVars, histVars, auxVars>>
    /\ UNCHANGED extVars

NextFault ==
    \/ Next
    \/ Update_SetEventOnCompletionFails
    \/ Update_WaitForSingleObjectFails
    \/ WinMain_Catch

SpecFault == Init /\ [][NextFault]_vars

\* --------------------------------------------------------------- user input

\* The render loop with input from the user: Spec follows the program while
\* no key is held and no window message arrives, SpecInput adds them.
NextInput ==
    \/ Next
    \/ Update_AdvanceKeyHeld

SpecInput == Init /\ [][NextInput]_vars

\* ------------------------------------------------------- BuildShapeGeometry

\* State of the ShapesApp object when its constructor has returned: no frame
\* resources, no render items, no geometry.
Constructed ==
    /\ pc = "Initialize"
    /\ mCurrFrameResourceIndex = 0
    /\ mCurrFrameResource = NullFrameResource
    /\ mCurrentFence = 0
    /\ completed = 0
    /\ fence0 = 0
    /\ Fence = << >>
    /\ CmdListAlloc = << >>
    /\ ObjectCB = << >>
    /\ PassCB = << >>
    /\ World = << >>
    /\ NumFramesDirty = << >>
    /\ mCommandList = 0
    /\ queue = << >>
    /\ eventHandle = "none"
    /\ eventTarget = 0
    /\ updates = 0
    /\ observed = 0
    /\ waited = FALSE
    /\ stampLog = << >>
    /\ submitted = << >>
    /\ framesSince = << >>
    /\ writeLog = << >>
    /\ priorWrites = << >>
    /\ nmut = 0
    /\ objPasses = 0
    /\ passWrites = << >>
    /\ fault = "none"
    /\ mIsWireframe = FALSE
    /\ mPSO = "none"
    /\ keyDown = FALSE
    /\ prevPSO = "none"
    /\ mCbvHeap = << >>
    /\ mPassCbvOffset = 0
    /\ passCbvIndex = << >>
    /\ cbvIndex = << >>
    /\ objCopies = {}
    /\ md3dDevice = "null"
    /\ initLog = << >>
    /\ flushReturn = "none"
    /\ flushes = 0
    /\ released = FALSE
    /\ CameraConstructed

\* The subsets of S that have at most k elements.
RECURSIVE SubsetsUpTo(_, _)
SubsetsUpTo(S, k) ==
    IF k = 0 THEN {{}}
    ELSE LET smaller == SubsetsUpTo(S, k - 1)
         IN  smaller \cup {T \cup {x} : T \in smaller, x \in S}

\* BuildShapeGeometry is entered with the meshes the generator has made: at
\* most MaxLargeMeshes of the vertex and index lists are longer than the
\* shortest possible.
InitGeometry ==
    /\ Constructed
    /\ pcGeo = "offsets"
    /\ \E large \in SubsetsUpTo(MeshNames \X {"Vertices", "Indices32"}, MaxLargeMeshes) :
          /\ meshVertices = [m \in MeshNames |->
                                IF <<m, "Vertices">> \in large THEN 2 ELSE 1]
          /\ meshIndices = [m \in MeshNames |->
                               IF <<m, "Indices32">> \in large THEN 6 ELSE 3]
    /\ vertexOffset = << >>
    /\ indexOffset = << >>
    /\ submesh = << >>
    /\ vertices = << >>
    /\ indices = << >>
    /\ DrawArgs = << >>

\* "Cache the vertex offsets ...", "Cache the starting index ..."
Geo_CacheOffsets ==
    /\ pcGeo = "offsets"
    /\ vertexOffset' = VertexOffsets(meshVertices)
    /\ indexOffset' = IndexOffsets(meshIndices)
    /\ pcGeo' = "submeshes"
    /\ UNCHANGED <<meshVertices, meshIndices, submesh, vertices, indices, DrawArgs>>
    /\ UNCHANGED nonGeoVars

\* "Define the SubmeshGeometry that cover different regions ..."
Geo_DefineSubmeshes ==
    /\ pcGeo = "submeshes"
    /\ submesh' = Submeshes(meshIndices, indexOffset, vertexOffset)
    /\ pcGeo' = "vertices"
    /\ UNCHANGED <<meshVertices, meshIndices, vertexOffset, indexOffset, vertices,
                   indices, DrawArgs>>
    /\ UNCHANGED nonGeoVars

\* "pack the vertices of all the meshes into one vertex buffer"
Geo_PackVertices ==
    /\ pcGeo = "vertices"
    /\ vertices' = PackMeshes(meshVertices)
    /\ pcGeo' = "indices"
    /\ UNCHANGED <<meshVertices, meshIndices, vertexOffset, indexOffset, submesh,
                   indices, DrawArgs>>
    /\ UNCHANGED nonGeoVars

\* "Create indices": indices.insert(indices.end(), ...) for every mesh
Geo_PackIndices ==
    /\ pcGeo = "indices"
    /\ indices' = PackMeshes(meshIndices)
    /\ pcGeo' = "drawArgs"
    /\ UNCHANGED <<meshVertices, meshIndices, vertexOffset, indexOffset, submesh,
                   vertices, DrawArgs>>
    /\ UNCHANGED nonGeoVars

\* "Store submesh data"
Geo_StoreDrawArgs ==
    /\ pcGeo = "drawArgs"
    /\ DrawArgs' = StoreDrawArgs(submesh)
    /\ pcGeo' = "done"
    /\ UNCHANGED <<meshVertices, meshIndices, vertexOffset, indexOffset, submesh,
                   vertices, indices>>
    /\ UNCHANGED nonGeoVars

BuildShapeGeometry ==
    \/ Geo_CacheOffsets
    \/ Geo_DefineSubmeshes
    \/ Geo_PackVertices
    \/ Geo_PackIndices
    \/ Geo_StoreDrawArgs

SpecGeometry == InitGeometry /\ [][BuildShapeGeometry]_vars

\* ------------------------------------------------- Initialize and destruction

\* WinMain before theApp.Initialize(): the object is constructed, the meshes
\* BuildShapeGeometry will create have their smallest sizes.
InitLife ==
    /\ Constructed
    /\ pcGeo = "offsets"
    /\ meshVertices = UnitVertices
    /\ meshIndices = UnitIndices
    /\ vertexOffset = << >>
    /\ indexOffset = << >>
    /\ submesh = << >>
    /\ vertices = << >>
    /\ indices = << >>
    /\ DrawArgs = << >>

\* if (!D3DApp::Initialize()) return false;  On success the device exists and
\* the command queue is idle at some fence value; on failure WinMain returns
\* and theApp is destroyed, with or without a device.
D3DApp_Initialize(ok, device, fence) ==
    /\ pc = "Initialize"
    /\ IF ok
       THEN /\ md3dDevice' = "device"
            /\ mCurrentFence' = fence
            /\ completed' = fence
            /\ pc' = "Init_Reset"
       ELSE /\ md3dDevice' = device
            /\ UNCHANGED <<mCurrentFence, completed>>
            /\ pc' = "~ShapesApp"
    /\ UNCHANGED <<mCurrFrameResourceIndex, mCurrFrameResource, Fence, CmdListAlloc,
                   ObjectCB, PassCB, World, NumFramesDirty, mCommandList, queue,
                   eventHandle, eventTarget, histVars, auxVars, wireVars, cbvVars,
                   objCopies, geoVars, camVars, initLog, flushReturn, flushes, released>>

\* ThrowIfFailed(mCommandList->Reset(mDirectCmdListAlloc.Get(), nullptr));
Init_Reset ==
    /\ pc = "Init_Reset"
    /\ initLog' = <<"Reset">>
    /\ pc' = "Init_Build"
    /\ UNCHANGED <<mCurrFrameResourceIndex, mCurrFrameResource, mCurrentFence, Fence,
                   CmdListAlloc, ObjectCB, PassCB, World, NumFramesDirty, mCommandList,
                   gpuVars, histVars, auxVars, wireVars, cbvVars, objCopies, geoVars,
                   camVars, md3dDevice, flushReturn, flushes, released>>

\* The Build call Initialize makes next, and its position after that call.
NextBuild == IF Len(initLog) <= Len(InitOrder) THEN InitOrder[Len(initLog)] ELSE "none"
AfterBuild == IF Len(initLog) = Len(InitOrder) THEN "Init_Close" ELSE "Init_Build"

\* BuildRootSignature, BuildShadersAndInputLayout, BuildPSOs: no state that the
\* frame loop reads.
Init_BuildOther(name) ==
    /\ pc = "Init_Build"
    /\ NextBuild = name
    /\ initLog' = Append(initLog, name)
    /\ pc' = AfterBuild
    /\ UNCHANGED <<mCurrFrameResourceIndex, mCurrFrameResource, mCurrentFence, Fence,
                   CmdListAlloc, ObjectCB, PassCB, World, NumFramesDirty, mCommandList,
                   gpuVars, histVars, auxVars, wireVars, cbvVars, objCopies, geoVars,
                   camVars, md3dDevice, flushReturn, flushes, released>>

Init_BuildRootSignature == Init_BuildOther("BuildRootSignature")
Init_BuildShadersAndInputLayout == Init_BuildOther("BuildShadersAndInputLayout")
Init_BuildPSOs == Init_BuildOther("BuildPSOs")

\* BuildShapeGeometry();
Init_BuildShapeGeometry ==
    /\ pc = "Init_Build"
    /\ NextBuild = "BuildShapeGeometry"
    /\ initLog' = Append(initLog, "BuildShapeGeometry")
    /\ pc' = AfterBuild
    /\ pcGeo' = "done"
    /\ vertexOffset' = VertexOffsets(meshVertices)
    /\ indexOffset' = IndexOffsets(meshIndices)
    /\ submesh' = Submeshes(meshIndices, indexOffset', vertexOffset')
    /\ vertices' = PackMeshes(meshVertices)
    /\ indices' = PackMeshes(meshIndices)
    /\ DrawArgs' = StoreDrawArgs(submesh')
    /\ UNCHANGED <<meshVertices, meshIndices>>
    /\ UNCHANGED <<mCurrFrameResourceIndex, mCurrFrameResource, mCurrentFence, Fence,
                   CmdListAlloc, ObjectCB, PassCB, World, NumFramesDirty, mCommandList,
                   gpuVars, histVars, auxVars, wireVars, cbvVars, objCopies,
                   camVars, md3dDevice, flushReturn, flushes, released>>

\* BuildRenderItems();
Init_BuildRenderItems ==
    /\ pc = "Init_Build"
    /\ NextBuild = "BuildRenderItems"
    /\ initLog' = Append(initLog, "BuildRenderItems")
    /\ pc' = AfterBuild
    /\ World' = [i \in Items |-> BuildWorld(i)]
    /\ NumFramesDirty' = [i \in Items |-> gNumFrameResources]
    /\ framesSince' = [i \in Items |-> 0]
    /\ writeLog' = [i \in Items |-> << >>]
    /\ priorWrites' = [i \in Items |-> -1]
    /\ UNCHANGED <<mCurrFrameResourceIndex, mCurrFrameResource, mCurrentFence, Fence,
                   CmdListAlloc, ObjectCB, PassCB, mCommandList, gpuVars, updates,
                   observed, waited, stampLog, submitted, nmut, fence0, auxVars,
                   wireVars, cbvVars, objCopies, geoVars, camVars, md3dDevice,
                   flushReturn, flushes, released>>

\* BuildFrameResources();
Init_BuildFrameResources ==
    /\ pc = "Init_Build"
    /\ NextBuild = "BuildFrameResources"
    /\ initLog' = Append(initLog, "BuildFrameResources")
    /\ pc' = AfterBuild
    /\ Fence' = [s \in Slots |-> 0]
    /\ CmdListAlloc' = [s \in Slots |-> 0]
    /\ ObjectCB' = [s \in Slots |-> [k \in ObjectCBRecords(mAllRitems) |-> Unwritten]]
    /\ PassCB' = [s \in Slots |-> 0]
    /\ UNCHANGED <<mCurrFrameResourceIndex, mCurrFrameResource, mCurrentFence, World,
                   NumFramesDirty, mCommandList, gpuVars, histVars, auxVars, wireVars,
                   cbvVars, objCopies, geoVars, camVars, md3dDevice, flushReturn,
                   flushes, released>>

\* BuildDescriptorHeaps();
Init_BuildDescriptorHeaps ==
    /\ pc = "Init_Build"
    /\ NextBuild = "BuildDescriptorHeaps"
    /\ initLog' = Append(initLog, "BuildDescriptorHeaps")
    /\ pc' = AfterBuild
    /\ mPassCbvOffset' = PassCbvOffset(ObjCount)
    /\ mCbvHeap' = CreateDescriptorHeap(NumDescriptors(ObjCount))
    /\ UNCHANGED <<passCbvIndex, cbvIndex>>
    /\ UNCHANGED <<cpuVars, gpuVars, histVars, auxVars, wireVars, objCopies, geoVars,
                   camVars, md3dDevice, flushReturn, flushes, released>>

\* BuildConstantBufferViews();
Init_BuildConstantBufferViews ==
    /\ pc = "Init_Build"
    /\ NextBuild = "BuildConstantBufferViews"
    /\ initLog' = Append(initLog, "BuildConstantBufferViews")
    /\ pc' = AfterBuild
    /\ mCbvHeap' = BuildConstantBufferViews(mCbvHeap, ObjCount, mPassCbvOffset)
    /\ UNCHANGED <<mPassCbvOffset, passCbvIndex, cbvIndex>>
    /\ UNCHANGED <<mCurrFrameResourceIndex, mCurrFrameResource, mCurrentFence, Fence,
                   CmdListAlloc, ObjectCB, PassCB, World, NumFramesDirty, mCommandList,
                   gpuVars, histVars, auxVars, wireVars, objCopies, geoVars,
                   camVars, md3dDevice, flushReturn, flushes, released>>

\* ThrowIfFailed(mCommandList->Close());
Init_Close ==
    /\ pc = "Init_Close"
    /\ initLog' = Append(initLog, "Close")
    /\ pc' = "Init_Execute"
    /\ UNCHANGED <<mCurrFrameResourceIndex, mCurrFrameResource, mCurrentFence, Fence,
                   CmdListAlloc, ObjectCB, PassCB, World, NumFramesDirty, mCommandList,
                   gpuVars, histVars, auxVars, wireVars, cbvVars, objCopies, geoVars,
                   camVars, md3dDevice, flushReturn, flushes, released>>

\* mCommandQueue->ExecuteCommandLists(...): the initialization commands; they
\* were recorded with mDirectCmdListAlloc, the allocator of no frame resource.
Init_Execute ==
    /\ pc = "Init_Execute"
    /\ initLog' = Append(initLog, "ExecuteCommandLists")
    /\ queue' = Append(queue, [op |-> "exec", slot |-> NullFrameResource, value |-> 0])
    /\ pc' = AfterInitExecute
    /\ UNCHANGED <<mCurrFrameResourceIndex, mCurrFrameResource, mCurrentFence, Fence,
                   CmdListAlloc, ObjectCB, PassCB, World, NumFramesDirty, mCommandList,
                   completed, eventHandle, eventTarget, histVars, auxVars, wireVars,
                   cbvVars, objCopies, geoVars, camVars, md3dDevice, flushReturn,
                   flushes, released>>

\* "Wait until initialization is complete."  FlushCommandQueue();
Init_Flush ==
    /\ pc = "Init_Flush"
    /\ initLog' = Append(initLog, "FlushCommandQueue")
    /\ flushes' = flushes + 1
    /\ flushReturn' = "Init_Return"
    /\ pc' = "Flush_Signal"
    /\ UNCHANGED <<mCurrFrameResourceIndex, mCurrFrameResource, mCurrentFence, Fence,
                   CmdListAlloc, ObjectCB, PassCB, World, NumFramesDirty, mCommandList,
                   gpuVars, histVars, auxVars, wireVars, cbvVars, objCopies, geoVars,
                   camVars, md3dDevice, released>>

\* FlushCommandQueue, first half: advance the fence value and enqueue a Signal
\* for it.
Flush_Signal ==
    /\ pc = "Flush_Signal"
    /\ mCurrentFence' = mCurrentFence + 1
    /\ queue' = Append(queue, [op |-> "signal", slot |-> NullFrameResource,
                               value |-> mCurrentFence'])
    /\ pc' = "Flush_Wait"
    /\ UNCHANGED <<mCurrFrameResourceIndex, mCurrFrameResource, Fence, CmdListAlloc,
                   ObjectCB, PassCB, World, NumFramesDirty, mCommandList, completed,
                   eventHandle, eventTarget, histVars, auxVars, wireVars, cbvVars,
                   objCopies, geoVars, camVars, lifeVars>>

\* FlushCommandQueue, second half: block until the fence has reached the
\* value, then return to the caller.
Flush_Wait ==
    /\ pc = "Flush_Wait"
    /\ completed >= mCurrentFence
    /\ pc' = flushReturn
    /\ flushReturn' = "none"
    /\ UNCHANGED <<mCurrFrameResourceIndex, mCurrFrameResource, mCurrentFence, Fence,
                   CmdListAlloc, ObjectCB, PassCB, World, NumFramesDirty, mCommandList,
                   gpuVars, histVars, auxVars, wireVars, cbvVars, objCopies, geoVars,
                   camVars, md3dDevice, initLog, flushes, released>>

\* return true; WinMain goes on to theApp.Run(), which calls Update and Draw.
Init_Return ==
    /\ pc = "Init_Return"
    /\ fence0' = mCurrentFence
    /\ pc' = "Update"
    /\ UNCHANGED <<mCurrFrameResourceIndex, mCurrFrameResource, mCurrentFence, Fence,
                   CmdListAlloc, ObjectCB, PassCB, World, NumFramesDirty, mCommandList,
                   gpuVars, updates, observed, waited, stampLog, submitted, framesSince,
                   writeLog, priorWrites, nmut, auxVars, wireVars, cbvVars, objCopies,
                   geoVars, camVars, lifeVars>>

\* theApp.Run() returns between two frames; WinMain returns and theApp is
\* destroyed.
Run_Quit ==
    /\ pc = "Update"
    /\ pc' = "~ShapesApp"
    /\ UNCHANGED <<mCurrFrameResourceIndex, mCurrFrameResource, mCurrentFence, Fence,
                   CmdListAlloc, ObjectCB, PassCB, World, NumFramesDirty, mCommandList,
                   gpuVars, histVars, auxVars, extVars>>

\* Positions at which a ThrowIfFailed of Update or Draw throws: at
\* SetEventOnCompletion, at the Reset and Close calls of Draw, at Present.
ThrowPcs == {"SetEventOnCompletion", "Draw", "StampFence"}

\* A DxException leaves theApp.Run(): theApp is destroyed while the stack
\* unwinds to the handler of WinMain.
Run_Throw ==
    /\ pc \in ThrowPcs
    /\ pc' = "~ShapesApp"
    /\ UNCHANGED <<mCurrFrameResourceIndex, mCurrFrameResource, mCurrentFence, Fence,
                   CmdListAlloc, ObjectCB, PassCB, World, NumFramesDirty, mCommandList,
                   gpuVars, histVars, auxVars, extVars>>

\* ~ShapesApp: if (md3dDevice != nullptr) FlushCommandQueue();
Dtor_Check ==
    /\ pc = "~ShapesApp"
    /\ IF DestructorFlushes(md3dDevice)
       THEN /\ flushes' = flushes + 1
            /\ flushReturn' = "Release"
            /\ pc' = "Flush_Signal"
       ELSE /\ UNCHANGED <<flushes, flushReturn>>
            /\ pc' = "Release"
    /\ UNCHANGED <<mCurrFrameResourceIndex, mCurrFrameResource, mCurrentFence, Fence,
                   CmdListAlloc, ObjectCB, PassCB, World, NumFramesDirty, mCommandList,
                   gpuVars, histVars, auxVars, wireVars, cbvVars, objCopies, geoVars,
                   camVars, md3dDevice, initLog, released>>

\* After the destructor's body the members are destroyed, mFrameResources
\* and with it every frame resource among them.
Dtor_Release ==
    /\ pc = "Release"
    /\ released' = TRUE
    /\ pc' = "Destroyed"
    /\ UNCHANGED <<mCurrFrameResourceIndex, mCurrFrameResource, mCurrentFence, Fence,
                   CmdListAlloc, ObjectCB, PassCB, World, NumFramesDirty, mCommandList,
                   gpuVars, histVars, auxVars, wireVars, cbvVars, objCopies, geoVars,
                   camVars, md3dDevice, initLog, flushReturn, flushes>>

FlushCommandQueue ==
    \/ Flush_Signal
    \/ Flush_Wait

Initialize ==
    \/ \E ok \in BOOLEAN, device \in {"null", "device"}, fence \in 0 .. MaxInitFence :
          D3DApp_Initialize(ok, device, fence)
    \/ Init_Reset
    \/ Init_BuildRootSignature
    \/ Init_BuildShadersAndInputLayout
    \/ Init_BuildShapeGeometry
    \/ Init_BuildRenderItems
    \/ Init_BuildFrameResources
    \/ Init_BuildDescriptorHeaps
    \/ Init_BuildConstantBufferViews
    \/ Init_BuildPSOs
    \/ Init_Close
    \/ Init_Execute
    \/ Init_Flush
    \/ Init_Return

NextLife ==
    \/ Initialize
    \/ FlushCommandQueue
    \/ Next
    \/ Run_Quit
    \/ Run_Throw
    \/ Dtor_Check
    \/ Dtor_Release

SpecLife == InitLife /\ [][NextLife]_vars

\* ------------------------------------------------------------ window messages

\* Window messages reach their handlers from the message loop of Run, on the
\* render thread, between two frames.

\* Values a read of mLastMousePos can give.
LastMousePosRead ==
    IF mLastMousePos = Indeterminate
    THEN MousePositions
    ELSE {mLastMousePos}

\* OnMouseDown(btnState, x, y)
OnMouseDown(btnState, x, y) ==
    /\ pc = "Update"
    /\ mLastMousePos' = <<x, y>>
    /\ mouseCapture' = TRUE
    /\ UNCHANGED <<mTheta, mPhi, mRadius, mProj, nMoves, msg>>
    /\ UNCHANGED <<cpuVars, gpuVars, histVars, auxVars, wireVars, cbvVars, objCopies,
                   geoVars, lifeVars>>

\* OnMouseUp(btnState, x, y)
OnMouseUp(btnState, x, y) ==
    /\ pc = "Update"
    /\ mouseCapture' = FALSE
    /\ UNCHANGED <<mTheta, mPhi, mRadius, mLastMousePos, mProj, nMoves, msg>>
    /\ UNCHANGED <<cpuVars, gpuVars, histVars, auxVars, wireVars, cbvVars, objCopies,
                   geoVars, lifeVars>>

\* OnMouseMove(btnState, x, y); last is the value read from mLastMousePos.
OnMouseMove(btnState, x, y, last) ==
    /\ pc = "Update"
    /\ nMoves < MaxMouseMoves
    /\ CASE MouseBranch(btnState) = "orbit" ->
                /\ last \in LastMousePosRead
                /\ mTheta' = mTheta + RotateDelta(x - last[1])
                /\ mPhi' = Clamp(mPhi + RotateDelta(y - last[2]), 1000, Pi - 1000)
                /\ UNCHANGED mRadius
         [] MouseBranch(btnState) = "zoom" ->
                /\ last \in LastMousePosRead
                /\ mRadius' = Clamp(mRadius + ZoomDelta(x - last[1]) - ZoomDelta(y - last[2]),
                                    5 * RadiusScale, 150 * RadiusScale)
                /\ UNCHANGED <<mTheta, mPhi>>
         [] OTHER ->
                /\ last = <<x, y>>
                /\ UNCHANGED <<mTheta, mPhi, mRadius>>
    /\ mLastMousePos' = <<x, y>>
    /\ nMoves' = nMoves + 1
    /\ msg' = [btnState |-> btnState, x |-> x, y |-> y]
    /\ UNCHANGED <<mProj, mouseCapture>>
    /\ UNCHANGED <<cpuVars, gpuVars, histVars, auxVars, wireVars, cbvVars, objCopies,
                   geoVars, lifeVars>>

\* OnResize(): the projection is recomputed for the new aspect ratio.
\* D3DApp::OnResize rebuilds the swap chain and the depth buffer, which are
\* not part of this model.
OnResize(aspect) ==
    /\ pc = "Update"
    /\ mProj' = aspect
    /\ UNCHANGED <<mTheta, mPhi, mRadius, mLastMousePos, nMoves, mouseCapture, msg>>
    /\ UNCHANGED <<cpuVars, gpuVars, histVars, auxVars, wireVars, cbvVars, objCopies,
                   geoVars, lifeVars>>

\* The program after Initialize, before its first frame.
InitCamera ==
    /\ Init
    /\ mCurrentFence = 1

\* The window messages of a run: the left button is pressed, the mouse is
\* dragged far to the right, the button is released; the window is resized
\* once.  Each message arrives between any two frames.
MsgProc ==
    \/ /\ mLastMousePos = Indeterminate
       /\ OnMouseDown({"MK_LBUTTON"}, 0, 0)
    \/ /\ mouseCapture
       /\ nMoves = 0
       /\ OnMouseMove({"MK_LBUTTON"}, 3000, 0, mLastMousePos)
    \/ /\ mouseCapture
       /\ nMoves > 0
       /\ OnMouseUp({}, 3000, 0)
    \/ /\ mProj = "Identity"
       /\ \E aspect \in AspectRatios : OnResize(aspect)

\* The frame loop with the keyboard and the window messages.
NextScene ==
    \/ Next
    \/ Update_AdvanceKeyHeld
    \/ MsgProc

SpecScene == InitCamera /\ [][NextScene]_vars

\* The mouse messages that reach OnMouseMove, with the presses before them.
MouseDrag ==
    \/ \E btnState \in ButtonStates, p \in MousePositions :
          OnMouseDown(btnState, p[1], p[2])
    \/ \E btnState \in ButtonStates, p \in MousePositions, last \in MousePositions :
          OnMouseMove(btnState, p[1], p[2], last)

\* The program between two frames, handling mouse messages only.
SpecCamera == InitCamera /\ [][MouseDrag]_vars

\* ------------------------------------------------------------------ fairness

\* The render thread keeps running and the GPU keeps executing the work that
\* is enqueued.
RenderThread ==
    \/ Update_Advance
    \/ Update_CheckFence
    \/ Update_CreateEvent
    \/ Update_SetEventOnCompletion
    \/ Update_WaitForSingleObject
    \/ Update_CloseHandle
    \/ UpdateObjectCBs
    \/ UpdateMainPassCB
    \/ Draw_Record
    \/ Draw_ExecuteCommandLists
    \/ Draw_StampFence
    \/ Draw_Signal

Gpu ==
    \/ GpuExecute
    \/ GpuSignal

SpecFair == Spec /\ WF_vars(RenderThread) /\ WF_vars(Gpu)

\* --------------------------------------------------------------- properties

\* Positions of the render thread inside the blocking wait of Update.
WaitPcs == {"CreateEvent", "SetEventOnCompletion", "WaitForSingleObject", "CloseHandle"}

\* Positions at which the next step of the render thread overwrites the
\* current slot: its object buffer, its pass buffer, its command allocator.
WritePcs == {"UpdateObjectCBs", "UpdateMainPassCB", "Draw"}

\* Submitted frames whose fence value exceeds the completed value c.
Outstanding(c) == Cardinality({k \in 1 .. Len(stampLog) : stampLog[k] > c})

\* Slots whose object buffer holds the item's current World, transposed.
SlotsHolding(i) ==
    {s \in Slots : ObjectCB[s][ObjCBIndex(i)] = XMMatrixTranspose(World[i])}

Range(seq) == {seq[k] : k \in 1 .. Len(seq)}

\* C1: no premature reuse.  Whenever the render thread is about to write the
\* current slot's object or pass buffer or to reset its command allocator,
\* the slot's Fence is 0 or the completed fence value has reached it, and the
\* GPU has no command list outstanding against that slot.
C1_NoPrematureReuse ==
    pc \in WritePcs =>
        /\ Fence[mCurrFrameResource] = 0 \/ completed >= Fence[mCurrFrameResource]
        /\ \A k \in 1 .. Len(queue) :
              queue[k].op = "exec" => queue[k].slot # mCurrFrameResource

C1_Witness ==
    /\ pc = "UpdateObjectCBs"
    /\ waited
    /\ Fence[mCurrFrameResource] # 0
    /\ completed >= Fence[mCurrFrameResource]
    /\ queue # << >>

\* C2: the blocking wait of Update is entered exactly when the slot's Fence
\* exceeds the completed value read by the check: inside the wait the Fence
\* exceeds that value, and an Update that went on to the buffer writes has
\* waited if and only if it does; the wait is skipped when Fence is 0 and
\* when the completed value has reached Fence.
C2_WaitExactlyWhenBehind ==
    /\ pc \in WaitPcs => Fence[mCurrFrameResource] > observed
    /\ pc \in WritePcs => (waited <=> Fence[mCurrFrameResource] > observed)
    /\ pc \in WritePcs /\ Fence[mCurrFrameResource] = 0 => ~waited
    /\ eventHandle # "none" => pc \in WaitPcs

C2_Witness ==
    /\ pc = "CreateEvent"
    /\ Fence[mCurrFrameResource] > observed

\* C3: in every Draw the command list is enqueued before the frame's Signal,
\* the Signal is the last thing enqueued for the frame, and the value
\* signalled is the value stamped into the current slot's Fence.
C3_SubmitThenSignal ==
    /\ \A k \in 1 .. Len(submitted) :
          IF k % 2 = 1
          THEN /\ submitted[k].op = "exec"
               /\ submitted[k].value = (k + 1) \div 2
          ELSE /\ submitted[k].op = "signal"
               /\ submitted[k].slot = submitted[k - 1].slot
               /\ submitted[k].value = stampLog[k \div 2]
    /\ pc = "Signal" => /\ Len(submitted) = 2 * updates - 1
                        /\ Fence[mCurrFrameResource] = mCurrentFence
    /\ pc = "Update" =>
          /\ Len(submitted) = 2 * updates
          /\ updates > 0 =>
                /\ submitted[Len(submitted)].op = "signal"
                /\ submitted[Len(submitted)].value = Fence[mCurrFrameResource]

C3_Witness ==
    /\ pc = "Update"
    /\ updates = 2
    /\ submitted[3].op = "exec"
    /\ submitted[4].op = "signal"
    /\ submitted[4].value = Fence[mCurrFrameResource]

\* C4: fence monotonicity.  Every Draw increments mCurrentFence exactly once
\* by 1: the n-th frame stamps and signals the value n above the value
\* mCurrentFence had before the first frame, so the values of successive
\* frames increase by exactly 1 and none is used twice.
C4_FenceMonotonic ==
    /\ mCurrentFence = fence0 + Len(stampLog)
    /\ \A k \in 1 .. Len(stampLog) : stampLog[k] = fence0 + k
    /\ Len(stampLog) = IF pc \in {"Update", "Signal"} THEN updates
                       ELSE updates - 1
    /\ \A k \in 1 .. Len(submitted) :
          submitted[k].op = "signal" => submitted[k].value = fence0 + (k \div 2)

C4_Witness ==
    /\ Len(stampLog) = 3
    /\ stampLog[3] = stampLog[2] + 1
    /\ stampLog[2] = stampLog[1] + 1
    /\ mCurrentFence = stampLog[3]

C6_PropagationComplete ==
    \A i \in Items :
        /\ framesSince[i] = gNumFrameResources => SlotsHolding(i) = Slots
        /\ framesSince[i] = 0 => SlotsHolding(i) = {}

C6_Witness ==
    \E i \in Items :
        /\ World[i] # BuildWorld(i)
        /\ framesSince[i] = gNumFrameResources
        /\ SlotsHolding(i) = Slots

\* C7: from NumFramesDirty = 3 the count falls by exactly 1 in every Update
\* down to 0 (2, 1, 0 after the first three), and the writes of those Updates
\* land in distinct slots, so that after three every slot was written once.
C7_DirtyCountdown ==
    \A i \in Items :
        /\ NumFramesDirty[i] = gNumFrameResources - framesSince[i]
        /\ Len(writeLog[i]) = framesSince[i]
        /\ Cardinality(Range(writeLog[i])) = Len(writeLog[i])
        /\ framesSince[i] = gNumFrameResources => Range(writeLog[i]) = Slots

C7_Witness ==
    \E i \in Items :
        /\ NumFramesDirty[i] = 0
        /\ Len(writeLog[i]) = 3
        /\ Range(writeLog[i]) = Slots
        /\ updates = 3

C9_FourthAdvanceWaits ==
    updates = 4 /\ Len(stampLog) = 3 =>
        /\ Fence[mCurrFrameResource] = stampLog[1]
        /\ pc \in WaitPcs \cup WritePcs /\ observed < stampLog[1] =>
              pc = "CreateEvent" \/ waited
        /\ pc \in WaitPcs \cup {"CheckFence"} =>
              /\ PassCB[mCurrFrameResource] # updates
              /\ CmdListAlloc[mCurrFrameResource] # updates
        /\ pc = "WaitForSingleObject" /\ eventHandle = "signaled" =>
              completed >= stampLog[1]
        /\ pc \in WritePcs \cup {"CloseHandle"} => completed >= stampLog[1]

C9_Witness ==
    /\ updates = 4
    /\ pc = "CloseHandle"
    /\ observed = fence0
    /\ completed = stampLog[1]

\* C10 as stated: the wait is entered only with more than 3 submitted frames
\* not yet completed.
C10_Original ==
    pc \in WaitPcs => Outstanding(observed) > gNumFrameResources

\* C10: the wait is entered only when at least 3 submitted frames, one for
\* every slot of the ring, had not completed at the check.
C10_WaitOnlyWhenRingFull ==
    pc \in WaitPcs => Outstanding(observed) >= gNumFrameResources

C10_Witness ==
    /\ pc = "CreateEvent"
    /\ Outstanding(observed) = gNumFrameResources

\* Positions between the end of the wait in Update and the frame's Signal.
PreparePcs == WritePcs \cup {"ExecuteCommandLists", "StampFence", "Signal"}

\* Slot the k-th submitted frame was recorded for.
FrameSlot(k) == submitted[2 * k - 1].slot

\* Submitted frames (by ordinal) that the GPU has not completed.
Uncompleted == {k \in 1 .. Len(stampLog) : stampLog[k] > completed}

\* The frame being prepared, once it is stamped.
CurrentStamped == IF pc = "Signal" THEN {Len(stampLog)} ELSE {}

\* C11: while the render thread prepares a frame (from the end of the wait
\* to the frame's Signal) at most 2 earlier frames are uncompleted and none of
\* them was recorded for the current slot; at every moment at most 3
\* submitted frames are uncompleted, each recorded for a different slot.
C11_BoundedInFlight ==
    /\ pc \in PreparePcs =>
          /\ Cardinality(Uncompleted \ CurrentStamped) <= gNumFrameResources - 1
          /\ \A k \in Uncompleted \ CurrentStamped : FrameSlot(k) # mCurrFrameResource
    /\ Cardinality(Uncompleted) <= gNumFrameResources
    /\ \A j, k \in Uncompleted : j # k => FrameSlot(j) # FrameSlot(k)

C11_Witness ==
    /\ pc = "UpdateObjectCBs"
    /\ updates = 4
    /\ Cardinality(Uncompleted) = gNumFrameResources - 1

\* C12: the completed fence value never exceeds mCurrentFence, it never
\* decreases, and the values read by successive GetCompletedValue calls never
\* decrease.
C12_CompletedBounded ==
    /\ [](completed <= mCurrentFence)
    /\ [][completed' >= completed /\ (observed' # observed => observed' >= observed)]_vars

C12_Witness ==
    /\ completed = mCurrentFence
    /\ completed > fence0 + 1
    /\ observed > fence0
    /\ observed < completed

\* C13: with a GPU that keeps executing enqueued work, every blocking wait
\* entered in Update returns, and every Update reaches UpdateObjectCBs.
C13_WaitReturns ==
    /\ (pc \in WaitPcs) ~> (pc = "UpdateObjectCBs" /\ waited)
    /\ (pc = "CheckFence") ~> (pc = "UpdateObjectCBs")

C13_Witness ==
    /\ pc = "UpdateObjectCBs"
    /\ waited
    /\ eventHandle = "none"
    /\ updates = MaxFrames

\* Positions of the render thread once an exception has left Update.
AbortedPcs == {"Thrown", "Exited"}

\* C14: a failure of the blocking wait itself is fatal: Update raises the
\* error and writes neither the object nor the pass buffer of the slot.
C14_WaitFailureFatal ==
    fault = "WaitForSingleObject" =>
        /\ pc \in AbortedPcs
        /\ objPasses = updates - 1
        /\ Len(passWrites) = updates - 1

C17_HandleReleased ==
    pc \notin WaitPcs => eventHandle = "none"

\* Positions of the render thread after UpdateMainPassCB of the current frame.
AfterPassPcs == {"Draw", "ExecuteCommandLists", "StampFence", "Signal", "Update"}

\* C18: every Update writes the pass record exactly once, whether or not it
\* waited, into the current slot's pass buffer at record index 0, inside the
\* single record the buffer has, and into no other slot's pass buffer.
C18_PassWrittenOnce ==
    /\ Len(passWrites) = IF pc \in AfterPassPcs THEN updates ELSE updates - 1
    /\ \A k \in 1 .. Len(passWrites) :
          /\ passWrites[k].slot = k % gNumFrameResources
          /\ passWrites[k].index = 0
          /\ passWrites[k].index < PassCount
    /\ \A s \in Slots :
          PassCB[s] # 0 => /\ PassCB[s] % gNumFrameResources = s
                           /\ PassCB[s] <= Len(passWrites)
                           /\ PassCB[s] + gNumFrameResources > Len(passWrites)

C18_Witness ==
    /\ Len(passWrites) = 4
    /\ passWrites[4].slot = 1
    /\ PassCB[1] = 4
    /\ waited

\* C19: UpdateObjectCBs writes an item's record only when its NumFramesDirty
\* is above 0 and only in the current slot's object buffer; an item at 0 is
\* not written and stays at 0; no other step writes an object buffer; and
\* NumFramesDirty is within 0..3 in every state.
C19_WriteOnlyDirty ==
    /\ [](\A i \in Items : NumFramesDirty[i] \in 0 .. gNumFrameResources)
    /\ [][/\ ObjectCB' # ObjectCB =>
                /\ pc = "UpdateObjectCBs"
                /\ \A s \in Slots : s # mCurrFrameResource => ObjectCB'[s] = ObjectCB[s]
          /\ \A i \in Items :
                /\ \A s \in Slots :
                      ObjectCB'[s][ObjCBIndex(i)] # ObjectCB[s][ObjCBIndex(i)] =>
                          NumFramesDirty[i] > 0 /\ s = mCurrFrameResource
                /\ Len(writeLog'[i]) > Len(writeLog[i]) => NumFramesDirty[i] > 0
                /\ pc = "UpdateObjectCBs" /\ NumFramesDirty[i] = 0 =>
                      /\ NumFramesDirty'[i] = 0
                      /\ writeLog'[i] = writeLog[i]
                /\ pc = "UpdateObjectCBs" /\ pc' # pc /\ NumFramesDirty[i] > 0 =>
                      /\ NumFramesDirty'[i] = NumFramesDirty[i] - 1
                      /\ ObjectCB'[mCurrFrameResource][ObjCBIndex(i)] =
                             XMMatrixTranspose(World[i])
         ]_vars

C19_Witness ==
    /\ pc = "UpdateMainPassCB"
    /\ \E i, j \in Items :
          /\ NumFramesDirty[i] = 0
          /\ writeLog[i] = <<1, 2, 0>>
          /\ NumFramesDirty[j] = 2
          /\ writeLog[j] = <<mCurrFrameResource>>

\* C20: every Draw changes the Fence of the current slot, and of no other
\* slot, to the new mCurrentFence; no other step, and so no step of Update,
\* changes the Fence of any slot.
C20_StampOneSlot ==
    [][/\ Fence' # Fence =>
             /\ pc = "StampFence"
             /\ \A s \in Slots : s # mCurrFrameResource => Fence'[s] = Fence[s]
       /\ pc = "StampFence" /\ pc' # pc =>
             /\ mCurrentFence' = mCurrentFence + 1
             /\ Fence'[mCurrFrameResource] = mCurrentFence'
             /\ Fence'[mCurrFrameResource] # Fence[mCurrFrameResource]
      ]_vars

C20_Witness ==
    /\ pc = "Signal"
    /\ updates = 4
    /\ Fence[mCurrFrameResource] = mCurrentFence
    /\ \A s \in Slots : s # mCurrFrameResource =>
           Fence[s] # 0 /\ Fence[s] < mCurrentFence

\* Positions of the render thread between the reset of the command list in
\* Draw and the next Update.
RecordedPcs == {"ExecuteCommandLists", "StampFence", "Signal", "Update"}

\* C21: for every frame, Draw resets the command list with the pipeline state
\* "opaque_wireframe" if and only if the '1' key was down at that frame's
\* Update, and with "opaque" otherwise, whatever the frame before was drawn
\* with; mIsWireframe is the key state of the latest Update.
C21_WireframeWhileHeld ==
    /\ updates > 0 => (mIsWireframe <=> keyDown)
    /\ pc \in RecordedPcs /\ updates > 0 =>
          /\ keyDown => mPSO = "opaque_wireframe"
          /\ ~keyDown => mPSO = "opaque"

C21_Witness ==
    /\ pc = "ExecuteCommandLists"
    /\ ~keyDown
    /\ mPSO = "opaque"
    /\ prevPSO = "opaque_wireframe"

\* Position of a mesh in the order of creation.
MeshPosition(m) == CHOOSE k \in 1 .. Len(MeshOrder) : MeshOrder[k] = m

\* Sum of size over the meshes created before position k.
RECURSIVE SizeBefore(_, _)
SizeBefore(size, k) ==
    IF k = 1 THEN 0 ELSE SizeBefore(size, k - 1) + size[MeshOrder[k - 1]]

\* C22: when BuildShapeGeometry is done, every submesh's BaseVertexLocation
\* is the sum of the vertex counts of the meshes created before it and its
\* StartIndexLocation the sum of their index counts; the index ranges follow
\* one another without gap or overlap from 0 to the end of the index buffer;
\* and both buffers hold the meshes' elements in that same order, each mesh
\* at the offset of its submesh.
C22_SharedBufferOffsets ==
    pcGeo = "done" =>
        /\ DOMAIN DrawArgs = MeshNames
        /\ \A m \in MeshNames :
              LET k == MeshPosition(m)
                  a == DrawArgs[m]
              IN  /\ a.BaseVertexLocation = SizeBefore(meshVertices, k)
                  /\ a.StartIndexLocation = SizeBefore(meshIndices, k)
                  /\ a.IndexCount = meshIndices[m]
                  /\ k = 1 => a.StartIndexLocation = 0
                  /\ k > 1 => a.StartIndexLocation =
                                 DrawArgs[MeshOrder[k - 1]].StartIndexLocation +
                                 DrawArgs[MeshOrder[k - 1]].IndexCount
                  /\ k = Len(MeshOrder) =>
                        a.StartIndexLocation + a.IndexCount = Len(indices)
                  /\ \A j \in 1 .. a.IndexCount :
                        indices[a.StartIndexLocation + j] = [mesh |-> m, element |-> j]
                  /\ \A i \in 1 .. meshVertices[m] :
                        vertices[a.BaseVertexLocation + i] = [mesh |-> m, element |-> i]
        /\ \A m, n \in MeshNames :
              m # n =>
                 \/ DrawArgs[m].StartIndexLocation + DrawArgs[m].IndexCount
                       <= DrawArgs[n].StartIndexLocation
                 \/ DrawArgs[n].StartIndexLocation + DrawArgs[n].IndexCount
                       <= DrawArgs[m].StartIndexLocation
        /\ Len(vertices) = SizeBefore(meshVertices, Len(MeshOrder)) +
                              meshVertices[MeshOrder[Len(MeshOrder)]]

C22_Witness ==
    /\ pcGeo = "done"
    /\ pc = "Initialize"
    /\ meshVertices["hexTower"] = 2
    /\ meshIndices["keepBody"] = 6
    /\ DrawArgs["gatehouse"].BaseVertexLocation = 14
    /\ DrawArgs["gatehouse"].StartIndexLocation = 42
    /\ Len(indices) = 45

\* C23: every descriptor Draw binds is the one BuildConstantBufferViews
\* filled for it: for the current slot f and every item with ObjCBIndex i the
\* index f * objCount + i holds the view of slot f's object record i, and the
\* pass index 3 * objCount + f holds the view of slot f's pass buffer; this
\* holds of the heap for every slot and item; every index lies in
\* [0, (objCount + 1) * 3) and no object index equals a pass index.
C23_DescriptorIndexing ==
    /\ \A f \in Slots :
          /\ \A i \in Items :
                /\ mCbvHeap[f * ObjCount + ObjCBIndex(i)] = ObjectView(f, ObjCBIndex(i))
                /\ f * ObjCount + ObjCBIndex(i) \in 0 .. ((ObjCount + 1) * 3 - 1)
                /\ \A g \in Slots : f * ObjCount + ObjCBIndex(i) # 3 * ObjCount + g
          /\ mCbvHeap[3 * ObjCount + f] = PassView(f)
          /\ 3 * ObjCount + f \in 0 .. ((ObjCount + 1) * 3 - 1)
    /\ DOMAIN mCbvHeap = 0 .. ((ObjCount + 1) * 3 - 1)
    /\ pc \in RecordedPcs /\ updates > 0 =>
          /\ passCbvIndex = 3 * ObjCount + mCurrFrameResourceIndex
          /\ mCbvHeap[passCbvIndex] = PassView(mCurrFrameResource)
          /\ \A i \in Items :
                /\ cbvIndex[i] = mCurrFrameResourceIndex * ObjCount + ObjCBIndex(i)
                /\ cbvIndex[i] \in DOMAIN mCbvHeap
                /\ mCbvHeap[cbvIndex[i]] = ObjectView(mCurrFrameResource, ObjCBIndex(i))
                /\ cbvIndex[i] # passCbvIndex

C23_Witness ==
    /\ pc = "ExecuteCommandLists"
    /\ mCurrFrameResourceIndex = 2
    /\ passCbvIndex = 3 * ObjCount + 2
    /\ \E i \in Items : ObjCBIndex(i) = 1 /\ cbvIndex[i] = 2 * ObjCount + 1
    /\ mCbvHeap[cbvIndex[1]] = ObjectView(2, 1)

FramePcs == {"Update", "CheckFence"} \cup WaitPcs \cup PreparePcs

\* Step a was made before step b whenever step b has been made.
StepBefore(a, b) ==
    \A k \in 1 .. Len(initLog) :
        initLog[k] = b => \E j \in 1 .. (k - 1) : initLog[j] = a

\* C25: Initialize returns true only after the initialization command list
\* was closed and submitted and the command queue flushed: whenever the
\* program is in Update or Draw the last three steps of Initialize are Close,
\* ExecuteCommandLists, FlushCommandQueue, no initialization command is in
\* the queue and the GPU has passed the flush's fence value; and within
\* Initialize geometry is built before render items, render items before
\* frame resources, and frame resources and the descriptor heap before the
\* constant buffer views.
C25_InitializeFlushed ==
    /\ pc \in FramePcs =>
        /\ Len(initLog) >= 3
        /\ SubSeq(initLog, Len(initLog) - 2, Len(initLog))
               = <<"Close", "ExecuteCommandLists", "FlushCommandQueue">>
        /\ \A k \in 1 .. Len(queue) : queue[k].slot # NullFrameResource
        /\ completed >= fence0
        /\ fence0 >= 1
    /\ (pc = "Update" /\ updates = 0) =>
        /\ queue = << >>
        /\ completed = mCurrentFence
        /\ mCurrentFence = fence0
    /\ StepBefore("BuildShapeGeometry", "BuildRenderItems")
    /\ StepBefore("BuildRenderItems", "BuildFrameResources")
    /\ StepBefore("BuildFrameResources", "BuildConstantBufferViews")
    /\ StepBefore("BuildDescriptorHeaps", "BuildConstantBufferViews")
    /\ StepBefore("ExecuteCommandLists", "FlushCommandQueue")
    /\ StepBefore("Close", "ExecuteCommandLists")

\* Initialize has returned true and the first frame has not begun: every
\* view is built over frame resources sized for all render items.
C25_Witness ==
    /\ pc = "Update"
    /\ updates = 0
    /\ flushes = 1
    /\ Len(initLog) = 12
    /\ mAllRitems = Items
    /\ \A s \in Slots : DOMAIN ObjectCB[s] = ObjectCBRecords(Items)
    /\ mCbvHeap = BuildConstantBufferViews(CreateDescriptorHeap(NumDescriptors(ObjCount)),
                                           ObjCount, mPassCbvOffset)

\* A Signal for the value has been enqueued to the command queue by Draw.
Signalled(value) ==
    \E k \in 1 .. Len(submitted) :
        submitted[k].op = "signal" /\ submitted[k].value = value

\* C26 as stated: in every state every slot's Fence is 0 or a value in
\* 1..mCurrentFence whose Signal has already been enqueued.
C26_Original ==
    \A s \in Slots :
        \/ Fence[s] = 0
        \/ Fence[s] \in 1 .. mCurrentFence /\ Signalled(Fence[s])

\* C26: every slot's Fence is 0 or a value in 1..mCurrentFence whose Signal
\* has been enqueued, except for the current slot between the two last
\* statements of Draw, where it holds the value the Signal about to be
\* enqueued carries; the Fence that Update checks and the target of any wait
\* it enters are values whose Signal was enqueued earlier.
C26_FenceSignalled ==
    /\ \A s \in Slots :
        \/ Fence[s] = 0
        \/ /\ Fence[s] \in 1 .. mCurrentFence
           /\ \/ Signalled(Fence[s])
              \/ pc = "Signal" /\ s = mCurrFrameResource /\ Fence[s] = mCurrentFence
    /\ pc \in {"CheckFence"} \cup WaitPcs =>
          Fence[mCurrFrameResource] = 0 \/ Signalled(Fence[mCurrFrameResource])
    /\ pc \in {"WaitForSingleObject", "CloseHandle"} => Signalled(eventTarget)

\* A wait has been registered on the Fence of a slot stamped three frames
\* earlier.
C26_Witness ==
    /\ pc = "WaitForSingleObject"
    /\ eventTarget = Fence[mCurrFrameResource]
    /\ eventTarget = stampLog[Len(stampLog) - 2]
    /\ Signalled(eventTarget)

\* A Signal that takes the fence to the value or beyond is still in the
\* command queue.
SignalPending(value) ==
    \E k \in 1 .. Len(queue) : queue[k].op = "signal" /\ queue[k].value >= value

\* C27: no lost wake-up: whenever the render thread is at WaitForSingleObject
\* and the GPU has reached the target, the event is set, whether the GPU
\* reached it before, during or after the registration; and while the event
\* is not set it is armed and a Signal reaching the target is still queued.
C27_NoLostWakeup ==
    pc = "WaitForSingleObject" =>
        /\ completed >= eventTarget => eventHandle = "signaled"
        /\ eventHandle # "signaled" =>
              /\ eventHandle = "armed"
              /\ SignalPending(eventTarget)

\* The check saw the fence below the target, the GPU has reached it since,
\* and the event the thread is about to block on is set.
C27_Witness ==
    /\ pc = "WaitForSingleObject"
    /\ observed < eventTarget
    /\ completed >= eventTarget
    /\ eventHandle = "signaled"

\* C30: after any sequence of OnMouseMove calls mPhi is within
\* [0.1, Pi - 0.1] and mRadius within [5, 150]; a move with the left button
\* held leaves mRadius alone, also when the right button is held too, a move
\* with only the right button held leaves the angles alone, a move with no
\* button held leaves all three alone, and every move stores the position of
\* the event in mLastMousePos.
C30_MouseMove ==
    /\ [](mPhi >= 1000 /\ mPhi <= Pi - 1000)
    /\ [](mRadius >= 5 * RadiusScale /\ mRadius <= 150 * RadiusScale)
    /\ [][nMoves' # nMoves =>
            /\ mLastMousePos' = <<msg'.x, msg'.y>>
            /\ "MK_LBUTTON" \in msg'.btnState => mRadius' = mRadius
            /\ msg'.btnState = {"MK_RBUTTON"} => mTheta' = mTheta /\ mPhi' = mPhi
            /\ msg'.btnState = {} =>
                  mTheta' = mTheta /\ mPhi' = mPhi /\ mRadius' = mRadius
            /\ UNCHANGED <<mProj, mouseCapture>>]_vars

\* A drag with both buttons held has taken mPhi to its upper limit and left
\* the radius as constructed; the angle mTheta has moved.
C30_Witness ==
    /\ nMoves > 0
    /\ msg.btnState = {"MK_LBUTTON", "MK_RBUTTON"}
    /\ mPhi = Pi - 1000
    /\ mRadius = 15 * RadiusScale
    /\ mTheta # (3 * Pi) \div 2
    /\ mLastMousePos = <<msg.x, msg.y>>

\* Positions of the destructor of ShapesApp after its body.
ReleasePcs == {"Release", "Destroyed"}

\* FlushCommandQueue calls made by Initialize.
InitializeFlushes ==
    Cardinality({k \in 1 .. Len(initLog) : initLog[k] = "FlushCommandQueue"})

\* C29: when ShapesApp is destroyed with a device, the command queue has
\* been flushed before the frame resources are released: at their release
\* the destructor has made one flush, the queue is empty and the completed
\* fence value is at least every slot's Fence; no slot is released while the
\* flush is under way; with a null device the destructor makes no flush.
C29_DestructorFlushes ==
    /\ (pc \in ReleasePcs /\ md3dDevice # "null") =>
        /\ flushes = InitializeFlushes + 1
        /\ queue = << >>
        /\ completed = mCurrentFence
        /\ \A s \in DOMAIN Fence : completed >= Fence[s]
    /\ released => pc = "Destroyed"
    /\ md3dDevice = "null" => flushes = 0 /\ queue = << >>

\* The program has run three frames and more, was closed and destroyed with
\* its device: the destructor's flush is the second one.
C29_Witness ==
    /\ released
    /\ md3dDevice = "device"
    /\ flushes = 2
    /\ Len(stampLog) >= gNumFrameResources
    /\ \A s \in Slots : Fence[s] > 0 /\ completed >= Fence[s]
    /\ mCurrentFence = stampLog[Len(stampLog)] + 1

\* Every item has been through three passes of UpdateObjectCBs.
ThreeFramesDone == \A i \in Items : framesSince[i] = gNumFrameResources

\* C28: the scene is static: no step of Update or Draw, no mouse or keyboard
\* handler and no resize changes an item's World or raises its
\* NumFramesDirty; once three frames have been updated every NumFramesDirty
\* is 0 and stays 0, and no record of any slot's object buffer is written
\* again.
C28_SceneStatic ==
    /\ [][/\ World' = World
          /\ \A i \in Items : NumFramesDirty'[i] <= NumFramesDirty[i]]_vars
    /\ [](ThreeFramesDone => \A i \in Items : NumFramesDirty[i] = 0)
    /\ [][ThreeFramesDone =>
            /\ NumFramesDirty' = NumFramesDirty
            /\ writeLog' = writeLog
            /\ ObjectCB' = ObjectCB
            /\ objCopies' = objCopies]_vars

\* Five frames were updated with the key held in the last one, after a
\* press, a drag, a release and a resize: every item was written three
\* times, once per slot, and is clean.
C28_Witness ==
    /\ updates = MaxFrames
    /\ pc = "UpdateMainPassCB"
    /\ mIsWireframe
    /\ nMoves = 1
    /\ mLastMousePos = <<3000, 0>>
    /\ ~mouseCapture
    /\ mProj # "Identity"
    /\ \A i \in Items :
        /\ NumFramesDirty[i] = 0
        /\ Len(writeLog[i]) = gNumFrameResources
        /\ World[i] = BuildWorld(i)

====
